---- MODULE Spec2Model ----
(***************************************************************************)
(* A model of the vendor reset manager (src/PGVendorManager.py, with the   *)
(* older variant src/vendor_tracker7.py where the two differ).             *)
(*                                                                         *)
(* Time.  A datetime is an integer count of ticks since an arbitrary local *)
(* epoch and a timedelta is an integer count of ticks, so that datetime    *)
(* arithmetic is integer arithmetic, as it is in Python (which counts      *)
(* microseconds).  TicksPerSecond stands for Python's 1,000,000            *)
(* microseconds per second; every other unit is derived from it.           *)
(*                                                                         *)
(* Python values that cross a parsing boundary (form fields, JSON values)  *)
(* are tagged records: IntV(n), NoneV, NumStr(n), StrV(s), ...             *)
(***************************************************************************)
EXTENDS Integers, Sequences, FiniteSets, TLC

VARIABLES
    vendors,            \* VendorApp.vendors: the in-memory collection
    current_character,  \* VendorApp.current_character
    characters,         \* VendorApp.characters
    files,              \* the data directory: storage key -> record on disk
    now,                \* the clock read by datetime.now()
    lastOp,             \* history: the last handler that ran, and whether it went through
    probe,              \* a call of a pure function: its arguments and result
    ui                  \* the windows and the timer: rows drawn, update window, tick

vars == <<vendors, current_character, characters, files, now, lastOp, probe, ui>>
appVars == <<vendors, current_character, characters, files, lastOp, ui>>

-----------------------------------------------------------------------------
(* Bounds of the model *)

MaxDaysIn == 8          \* largest integer typed into a days field
MaxHoursIn == 25        \* largest integer typed into an hours field
MaxMinutesIn == 61      \* largest integer typed into a minutes field
MaxClockStart == 1      \* the clock starts at 0..MaxClockStart ticks

-----------------------------------------------------------------------------
(* Time units *)

TicksPerSecond == 2
Second == TicksPerSecond
Minute == 60 * Second
Hour == 60 * Minute
Day == 24 * Hour

\* timedelta(days=d, hours=h, minutes=m)
timedelta(d, h, m) == d * Day + h * Hour + m * Minute

-----------------------------------------------------------------------------
(* Python values *)

IntV(n) == [t |-> "int", v |-> n]
NumStr(n) == [t |-> "numstr", v |-> n]     \* a string that spells the integer n
StrV(s) == [t |-> "str", v |-> s]          \* any other string, "" included
NoneV == [t |-> "none"]

Max(a, b) == IF a >= b THEN a ELSE b
Min(a, b) == IF a <= b THEN a ELSE b

\* Python truthiness of a value: None, 0 and "" are falsy.
Truthy(x) ==
    CASE x.t = "none" -> FALSE
      [] x.t = "str" -> x.v # ""
      [] x.t = "int" -> x.v # 0
      [] OTHER -> TRUE

\* int(x): the integer, or the exception int() raises.
PyInt(x) ==
    CASE x.t = "int" -> [ok |-> TRUE, v |-> x.v]
      [] x.t = "numstr" -> [ok |-> TRUE, v |-> x.v]
      [] x.t = "none" -> [ok |-> FALSE, exc |-> "TypeError"]
      [] OTHER -> [ok |-> FALSE, exc |-> "ValueError"]

\* int(x or 0)
IntOrZero(x) == IF Truthy(x) THEN PyInt(x) ELSE [ok |-> TRUE, v |-> 0]

-----------------------------------------------------------------------------
(* TimeNormalizer: _clamp_reset_inputs and calculate_last_reset *)

MAX_TOTAL_MINUTES == 6 * 24 * 60 + 23 * 60 + 59

\* The older variant's clamp: each field capped on its own, no ceiling on the
\* total and no carry (src/vendor_tracker7.py).
ClampFieldwise(days, hours, minutes, override_max_time) ==
    LET pd == IntOrZero(days)
        ph == IntOrZero(hours)
        pm == IntOrZero(minutes)
    IN  IF ~(pd.ok /\ ph.ok /\ pm.ok) THEN <<0, 0, 0>>
        ELSE <<Max(0, Min(6, pd.v)), Max(0, Min(23, ph.v)), Max(0, Min(59, pm.v))>>

\* A clamp that forgets the ceiling on the total.
ClampNoCeiling(days, hours, minutes, override_max_time) ==
    LET pd == IntOrZero(days)
        ph == IntOrZero(hours)
        pm == IntOrZero(minutes)
    IN  IF ~(pd.ok /\ ph.ok /\ pm.ok) THEN <<0, 0, 0>>
        ELSE LET total == Max(0, pd.v) * 24 * 60 + Max(0, ph.v) * 60 + Max(0, pm.v)
             IN  <<total \div (24 * 60), (total % (24 * 60)) \div 60, total % 60>>

\* A clamp whose override branch carries excess hours and minutes over.
ClampOverrideCarries(days, hours, minutes, override_max_time) ==
    LET pd == IntOrZero(days)
        ph == IntOrZero(hours)
        pm == IntOrZero(minutes)
    IN  IF ~(pd.ok /\ ph.ok /\ pm.ok) THEN <<0, 0, 0>>
        ELSE LET raw == Max(0, pd.v) * 24 * 60 + Max(0, ph.v) * 60 + Max(0, pm.v)
                 total == IF ~override_max_time /\ raw > MAX_TOTAL_MINUTES
                          THEN MAX_TOTAL_MINUTES ELSE raw
             IN  <<total \div (24 * 60), (total % (24 * 60)) \div 60, total % 60>>

_clamp_reset_inputs(days, hours, minutes, override_max_time) ==
    LET pd == IntOrZero(days)
        ph == IntOrZero(hours)
        pm == IntOrZero(minutes)
    IN  IF ~(pd.ok /\ ph.ok /\ pm.ok)
        THEN <<0, 0, 0>>                       \* except (ValueError, TypeError)
        ELSE LET d == Max(0, pd.v)
                 h == Max(0, ph.v)
                 m == Max(0, pm.v)
             IN  IF ~override_max_time
                 THEN LET raw == d * 24 * 60 + h * 60 + m
                          total_minutes == IF raw > MAX_TOTAL_MINUTES
                                           THEN MAX_TOTAL_MINUTES ELSE raw
                          remainder == total_minutes % (24 * 60)
                      IN  <<total_minutes \div (24 * 60), remainder \div 60,
                            remainder % 60>>
                 ELSE <<d, Min(h, 23), Min(m, 59)>>

\* calculate_last_reset measuring from a 6-day cycle instead of 7 days.
CalcLastResetSixDays(days, hours, minutes, override_max_time, clock) ==
    LET c == _clamp_reset_inputs(days, hours, minutes, override_max_time)
    IN  clock + timedelta(c[1], c[2], c[3]) - timedelta(6, 0, 0)

\* datetime.now() is the parameter clock.
calculate_last_reset(days, hours, minutes, override_max_time, clock) ==
    LET c == _clamp_reset_inputs(days, hours, minutes, override_max_time)
        time_until_reset == timedelta(c[1], c[2], c[3])
    IN  IF ~override_max_time
        THEN LET time_since_last_reset == timedelta(7, 0, 0) - time_until_reset
             IN  clock - time_since_last_reset
        ELSE clock + time_until_reset - timedelta(7, 0, 0)

\* Vendor.next_reset, of a last_reset
next_reset_of(last_reset) == last_reset + timedelta(7, 0, 0)

-----------------------------------------------------------------------------
(* Text.  A Python str is a TLA+ string; where the code looks at the        *)
(* characters of a string (sanitizing a character name), Chars gives them.  *)

DEFAULT_CHARACTER == "Default"

\* The character names of the model.
CharacterNames == {"Default", "Alt", "Bo"}

Chars(s) ==
    CASE s = "Default" -> <<"D", "e", "f", "a", "u", "l", "t">>
      [] s = "Alt" -> <<"A", "l", "t">>
      [] s = "Bo" -> <<"B", "o">>
      [] s = "A" -> <<"A">>
      [] s = "B" -> <<"B">>
      [] s = "Z" -> <<"Z">>
      [] s = "Armor" -> <<"A", "r", "m", "o", "r">>
      [] s = "Misc" -> <<"M", "i", "s", "c">>
      [] s = "" -> <<>>

\* The str with the given characters.
FromChars(cs) == CHOOSE s \in CharacterNames \cup {""} : Chars(s) = cs

\* str.isalnum() of one character
IsAlnum(c) ==
    c \in {"A", "D", "B", "a", "b", "c", "e", "f", "i", "l", "o", "t", "u",
           "0", "1", "2"}

\* s.rstrip(): trailing whitespace removed
RECURSIVE RStrip(_)
RStrip(cs) ==
    IF cs # <<>> /\ cs[Len(cs)] = " " THEN RStrip(SubSeq(cs, 1, Len(cs) - 1))
    ELSE cs

\* "".join(c for c in character_name if c.isalnum() or c in (' ', '-', '_'))
KeepSafe(cs) == SelectSeq(cs, LAMBDA c : IsAlnum(c) \/ c \in {" ", "-", "_"})

\* s.lstrip() and s.strip().  Of the whitespace characters only the space
\* passes KeepSafe, and the two are only applied to what KeepSafe returns.
RECURSIVE LStrip(_)
LStrip(cs) ==
    IF cs # <<>> /\ cs[1] = " " THEN LStrip(SubSeq(cs, 2, Len(cs)))
    ELSE cs
Strip(cs) == LStrip(RStrip(cs))

\* character_file_path's safe_name, on the characters of the name
KeyChars(cs) == RStrip(KeepSafe(cs))

\* An add_new_character whose safe_name is trimmed at the end only.
SafeNameRStripOnly(cs) == RStrip(KeepSafe(cs))

\* add_new_character's safe_name, on the characters of the name typed
SafeNameOf(cs) == Strip(KeepSafe(cs))

\* character_file_path: the storage key (the file's name without the fixed
\* directory and the fixed suffix "_vendors.json").
character_file_path(character_name) == FromChars(KeyChars(Chars(character_name)))

StorageKeys == {character_file_path(c) : c \in CharacterNames}

\* sorted(names): Python orders str by code point.
SortedNames == <<"Alt", "Bo", "Default">>
Sorted(S) == SelectSeq(SortedNames, LAMBDA n : n \in S)

\* names.sort() of a list
SortedSeq(names) ==
    LET copies(n) == SelectSeq(names, LAMBDA x : x = n)
    IN  copies(SortedNames[1]) \o copies(SortedNames[2]) \o copies(SortedNames[3])

-----------------------------------------------------------------------------
(* datetime <-> ISO-8601 text *)

\* datetime.isoformat(): the text, as its fields <<date, hour, minute,
\* second>>, with the fraction of a second appended only when it is not zero.
\* The date field stands for YYYY-MM-DD: the day number since the epoch.
isoformat(dt) ==
    LET rest == dt % Day
        date == dt \div Day
        hh == rest \div Hour
        mm == (rest % Hour) \div Minute
        ss == (rest % Minute) \div Second
        frac == rest % Second
    IN  IF frac = 0 THEN <<date, hh, mm, ss>> ELSE <<date, hh, mm, ss, frac>>

\* datetime.fromisoformat of YYYY-MM-DD[THH[:MM[:SS[.ffffff]]]]
fromisoformat(f) ==
    f[1] * Day
    + (IF Len(f) >= 2 THEN f[2] * Hour ELSE 0)
    + (IF Len(f) >= 3 THEN f[3] * Minute ELSE 0)
    + (IF Len(f) >= 4 THEN f[4] * Second ELSE 0)
    + (IF Len(f) >= 5 THEN f[5] ELSE 0)

\* datetime.fromtimestamp(float(text)) of a text spelling n seconds: the epoch
\* of the model is the local one.
fromtimestamp(n) == n * Second

IsoStr(f) == [t |-> "isostr", v |-> f]       \* a str in ISO-8601 form
DateTimeV(dt) == [t |-> "datetime", v |-> dt]
ListV(xs) == [t |-> "list", v |-> xs]
Missing == [t |-> "missing"]                 \* a key the JSON object lacks

\* A str float() reads as a number of seconds that the platform's localtime()
\* cannot convert ("1e17"): datetime.fromtimestamp raises OSError.
HugeNumStr == [t |-> "hugenumstr"]

-----------------------------------------------------------------------------
(* Vendor *)

\* Vendor.__init__'s parsing of last_reset
ParseLastReset(last_reset, clock) ==
    CASE last_reset.t = "isostr" -> fromisoformat(last_reset.v)
      [] last_reset.t = "numstr" -> fromtimestamp(last_reset.v)
      [] last_reset.t = "str" -> clock           \* both parses fail: warning
      [] last_reset.t = "datetime" -> last_reset.v
      [] OTHER -> clock                          \* unknown type: warning

\* Vendor.__init__: the parsing of last_reset raises an exception that neither
\* except clause names.
LastResetRaises(last_reset) == last_reset.t = "hugenumstr"

\* categories or []
CategoriesOrEmpty(categories) ==
    IF categories.t = "list" THEN categories.v ELSE <<>>

\* Vendor.__init__: the new object, or the exception raised.  h_held and
\* h_updated are history, not fields of the object: the largest council_left
\* the object has held, and whether update_vendor_action has changed it.
VendorInit(name, zone, council_left, last_reset, reset_maximum, categories, clock) ==
    LET c == PyInt(council_left)
        r == PyInt(reset_maximum)
    IN  IF ~c.ok THEN [ok |-> FALSE, exc |-> c.exc]
        ELSE IF LastResetRaises(last_reset) THEN [ok |-> FALSE, exc |-> "OSError"]
        ELSE IF ~r.ok THEN [ok |-> FALSE, exc |-> r.exc]
        ELSE [ok |-> TRUE,
              v |-> [name |-> name, zone |-> zone, council_left |-> c.v,
                     last_reset |-> ParseLastReset(last_reset, clock),
                     reset_maximum |-> r.v,
                     categories |-> CategoriesOrEmpty(categories),
                     h_held |-> c.v, h_updated |-> FALSE]]

\* Vendor.to_dict that writes last_reset to the minute only.
ToDictMinutes(v) ==
    [t |-> "obj",
     name |-> StrV(v.name),
     zone |-> StrV(v.zone),
     council_left |-> IntV(v.council_left),
     last_reset |-> IsoStr(SubSeq(isoformat(v.last_reset), 1, 3)),
     reset_maximum |-> IntV(v.reset_maximum),
     categories |-> ListV(v.categories)]

\* Vendor.to_dict: the JSON object
to_dict(v) ==
    [t |-> "obj",
     name |-> StrV(v.name),
     zone |-> StrV(v.zone),
     council_left |-> IntV(v.council_left),
     last_reset |-> IsoStr(isoformat(v.last_reset)),
     reset_maximum |-> IntV(v.reset_maximum),
     categories |-> ListV(v.categories)]

\* d.get(key, default) of a key's value in a JSON object
Get(value, default) == IF value.t = "missing" THEN default ELSE value

\* Vendor.from_dict: d.get on a value that is not an object raises
\* AttributeError.  A name or zone is a str in every record of the model.
from_dict(d, clock) ==
    IF d.t # "obj" THEN [ok |-> FALSE, exc |-> "AttributeError"]
    ELSE VendorInit(Get(d.name, StrV("")).v,
                    Get(d.zone, StrV("")).v,
                    Get(d.council_left, IntV(0)),
                    Get(d.last_reset, IsoStr(isoformat(clock))),
                    Get(d.reset_maximum, IntV(0)),
                    Get(d.categories, ListV(<<>>)),
                    clock)

\* Vendor.next_reset
next_reset(v) == next_reset_of(v.last_reset)

\* The fields of a Vendor object, without the history.
Fields(v) ==
    [name |-> v.name, zone |-> v.zone, council_left |-> v.council_left,
     last_reset |-> v.last_reset, reset_maximum |-> v.reset_maximum,
     categories |-> v.categories]

-----------------------------------------------------------------------------
(* Persistence: save_vendors and load_vendors *)

NoFile == [k |-> "nofile"]                   \* os.path.exists(file_path) is false
Garbage == [k |-> "garbage"]                 \* text json.load cannot parse
Undecodable == [k |-> "undecodable"]         \* bytes that are not UTF-8 text
ListFile(items) == [k |-> "list", items |-> items]
DictFile(vendors_value, vendor_list_value) ==
    [k |-> "dict", vendors |-> vendors_value, vendor_list |-> vendor_list_value]
ScalarFile == [k |-> "scalar"]               \* JSON that is no list and no object

\* How a write ends: done; OSError before the file is opened for writing (the
\* record is as it was); OSError after open(file_path, 'w') truncated it.
WriteOutcomes == {"ok", "oserror_open", "oserror_write"}

\* save_vendors that leaves the last vendor of the list out of the record.
SaveVendorsAllButLast(vs, character_name, fs, outcome) ==
    LET file_path == character_file_path(character_name)
        vendor_list == [i \in 1 .. Len(vs) - 1 |-> to_dict(vs[i])]
    IN  CASE outcome = "ok" -> [fs EXCEPT ![file_path] = ListFile(vendor_list)]
          [] outcome = "oserror_open" -> fs
          [] outcome = "oserror_write" -> [fs EXCEPT ![file_path] = Garbage]

\* save_vendors: the data directory afterwards.
save_vendors(vs, character_name, fs, outcome) ==
    LET file_path == character_file_path(character_name)
        vendor_list == [i \in 1 .. Len(vs) |-> to_dict(vs[i])]
    IN  CASE outcome = "ok" -> [fs EXCEPT ![file_path] = ListFile(vendor_list)]
          [] outcome = "oserror_open" -> fs
          [] outcome = "oserror_write" -> [fs EXCEPT ![file_path] = Garbage]

\* The loop over a vendor list: each entry goes through Vendor.from_dict; when
\* that raises, the handler prints vendor_data.get('name', 'Unknown'), which
\* itself raises AttributeError when the entry is not an object, and that
\* exception leaves load_vendors.
RECURSIVE LoadItems(_, _)
LoadItems(items, clock) ==
    IF items = <<>> THEN [raised |-> FALSE, vendors |-> <<>>]
    ELSE LET before == LoadItems(SubSeq(items, 1, Len(items) - 1), clock)
             vendor_data == items[Len(items)]
             made == from_dict(vendor_data, clock)
         IN  IF before.raised THEN before
             ELSE IF made.ok
                  THEN [raised |-> FALSE, vendors |-> Append(before.vendors, made.v)]
             ELSE IF vendor_data.t = "obj" THEN before
             ELSE [raised |-> TRUE, exc |-> "AttributeError", vendors |-> <<>>]

\* A lookup of the vendor list that reads the "vendors" field only.
VendorsBlobOnlyVendors(data) ==
    LET a == Get(data.vendors, NoneV)
    IN  IF a.t = "list" THEN a ELSE ListV(<<>>)

\* data.get("vendors") or data.get("vendor_list") or []
VendorsBlob(data) ==
    LET a == Get(data.vendors, NoneV)
        b == Get(data.vendor_list, NoneV)
        truthy(x) == IF x.t = "list" THEN x.v # <<>> ELSE Truthy(x)
    IN  IF truthy(a) THEN a ELSE IF truthy(b) THEN b ELSE ListV(<<>>)

\* load_vendors: what the caller gets: the vendors, or the exception that left
\* the function.  read_ok: reading the file does not raise OSError.
load_vendors(character_name, fs, clock, read_ok) ==
    LET data == fs[character_file_path(character_name)]
        empty == [raised |-> FALSE, vendors |-> <<>>]
    IN  CASE data.k = "nofile" -> empty
          [] ~read_ok -> empty                     \* except (OSError, IOError)
          [] data.k = "undecodable" ->             \* f.read() in json.load: no handler
                [raised |-> TRUE, exc |-> "UnicodeDecodeError", vendors |-> <<>>]
          [] data.k = "garbage" -> empty           \* except json.JSONDecodeError
          [] data.k = "list" -> LoadItems(data.items, clock)
          [] data.k = "dict" ->
                IF VendorsBlob(data).t = "list"
                THEN LoadItems(VendorsBlob(data).v, clock)
                ELSE empty
          [] OTHER -> empty                        \* unexpected file format

-----------------------------------------------------------------------------
(* The forms of the add and update windows *)

\* The five fixed category checkboxes, in the order of the dict cat_vars.
CATEGORIES == <<"Jewelry", "Armor", "Weapons", "Scrolls", "Misc">>

\* [c for c, var in cat_vars.items() if var.get()]
Selected(checked) == SelectSeq(CATEGORIES, LAMBDA c : c \in checked)

\* "Dedupe preserve order": the seen-set loop over selected_cats.
RECURSIVE Dedupe(_)
Dedupe(xs) ==
    IF xs = <<>> THEN <<>>
    ELSE LET front == Dedupe(SubSeq(xs, 1, Len(xs) - 1))
             c == xs[Len(xs)]
         IN  IF \E j \in 1 .. Len(front) : front[j] = c THEN front
             ELSE Append(front, c)

\* float(council_entry.get() or 0) and int(council_input * 1000): the entry
\* holds "", the spelling of a number of K, or text float() rejects.
ParseCouncil(entry) ==
    IF ~Truthy(entry) THEN [ok |-> TRUE, v |-> 0]
    ELSE IF entry.t = "numstr" THEN [ok |-> TRUE, v |-> entry.v * 1000]
    ELSE [ok |-> FALSE, exc |-> "ValueError"]

\* The time part of a handler that clamps a total above the ceiling instead
\* of refusing it.
ParseResetTimeNoCeiling(form, clock) ==
    LET d_raw == IntOrZero(form.days)
        h_raw == IntOrZero(form.hours)
        m_raw == IntOrZero(form.minutes)
    IN  IF ~(d_raw.ok /\ h_raw.ok /\ m_raw.ok)
        THEN [ok |-> FALSE, err |-> "Days, Hours, Minutes must be integers."]
        ELSE LET c == _clamp_reset_inputs(IntV(d_raw.v), IntV(h_raw.v),
                                          IntV(m_raw.v), form.override)
             IN  [ok |-> TRUE,
                  last_reset |-> calculate_last_reset(IntV(c[1]), IntV(c[2]),
                                     IntV(c[3]), form.override, clock)]

\* The time part of both handlers: the raw integers, the ceiling check on the
\* raw total, then _clamp_reset_inputs and calculate_last_reset.
ParseResetTime(form, clock) ==
    LET d_raw == IntOrZero(form.days)
        h_raw == IntOrZero(form.hours)
        m_raw == IntOrZero(form.minutes)
    IN  IF ~(d_raw.ok /\ h_raw.ok /\ m_raw.ok)
        THEN [ok |-> FALSE, err |-> "Days, Hours, Minutes must be integers."]
        ELSE LET total_minutes == d_raw.v * 24 * 60 + h_raw.v * 60 + m_raw.v
                 c == _clamp_reset_inputs(IntV(d_raw.v), IntV(h_raw.v),
                                          IntV(m_raw.v), form.override)
             IN  IF total_minutes > MAX_TOTAL_MINUTES /\ ~form.override
                 THEN [ok |-> FALSE, err |-> "Reset time cannot exceed 6d 23h 59m"]
                 ELSE [ok |-> TRUE,
                       last_reset |-> calculate_last_reset(IntV(c[1]), IntV(c[2]),
                                          IntV(c[3]), form.override, clock)]

\* add_and_save up to the new Vendor: the vendor, or the error shown.  The
\* custom entry is taken whole, as one category.
NewVendorOf(form, clock) ==
    LET council == ParseCouncil(form.council)
        time == ParseResetTime(form, clock)
        selected_cats == Selected(form.checked) \o
                         (IF form.custom_on /\ form.custom # ""
                          THEN <<form.custom>> ELSE <<>>)
    IN  IF form.name = "" THEN [ok |-> FALSE, err |-> "Vendor name cannot be empty."]
        ELSE IF ~council.ok THEN [ok |-> FALSE, err |-> "Council must be numeric (K)."]
        ELSE IF ~time.ok THEN time
        ELSE VendorInit(form.name, form.zone, IntV(council.v),
                        DateTimeV(time.last_reset), IntV(council.v),
                        ListV(Dedupe(selected_cats)), clock)

\* update_vendor_action up to the save: the vendor object after the update, or
\* the error shown.  The custom entry is split at its commas: form.custom
\* holds the pieces, stripped.
UpdatedVendorOf(vendor, form, clock) ==
    LET council == ParseCouncil(form.council)
        time == ParseResetTime(form, clock)
        extras == SelectSeq(form.custom, LAMBDA x : x # "")
        selected_cats == Selected(form.checked) \o
                         (IF form.custom_on THEN extras ELSE <<>>)
    IN  IF ~council.ok THEN [ok |-> FALSE, err |-> "Council must be numeric (K)."]
        ELSE IF ~time.ok THEN time
        ELSE [ok |-> TRUE,
              v |-> [vendor EXCEPT
                       !.council_left = council.v,
                       !.reset_maximum = Max(@, council.v),
                       !.last_reset = time.last_reset,
                       !.categories = Dedupe(selected_cats),
                       !.h_held = Max(@, council.v),
                       !.h_updated = TRUE]]

\* reset_now that refills council_left whatever reset_maximum is.
ResetVendorAlwaysRefills(vendor, clock) ==
    [vendor EXCEPT !.last_reset = clock,
                   !.council_left = vendor.reset_maximum,
                   !.h_held = Max(@, vendor.reset_maximum)]

\* reset_now, once confirmed: the vendor object after it.
ResetVendorOf(vendor, clock) ==
    IF vendor.reset_maximum > 0
    THEN [vendor EXCEPT !.last_reset = clock,
                        !.council_left = vendor.reset_maximum,
                        !.h_held = Max(@, vendor.reset_maximum)]
    ELSE [vendor EXCEPT !.last_reset = clock]

\* delete_vendor's [v for v in self.vendors if v.name != vendor_to_delete.name]
WithoutName(vs, name) == SelectSeq(vs, LAMBDA v : v.name # name)

-----------------------------------------------------------------------------
(* The application's state after construction, held fixed by the             *)
(* specifications that only call pure functions.                             *)

\* update_vendor_list with no filter typed: the vendor_name of the frames it
\* packs, one frame per vendor.
RowNames(vs) == {vs[i].name : i \in 1 .. Len(vs)}

\* No update window is open.
NoWindow == [open |-> FALSE]

\* open_update_vendor_window(vendor): the window's closures hold the Vendor
\* object.  at is the object's place in self.vendors, 0 once self.vendors no
\* longer holds it; vendor is the object.
WindowOn(vs, i) == [open |-> TRUE, at |-> i, vendor |-> vs[i]]

\* The open window after delete_vendor replaced self.vendors by the list of
\* the objects of vs whose name is not the given one.
WindowAfterDelete(w, vs, name) ==
    IF ~w.open \/ w.at = 0 THEN w
    ELSE IF vs[w.at].name = name THEN [w EXCEPT !.at = 0]
    ELSE [w EXCEPT !.at = Len(SelectSeq(SubSeq(vs, 1, w.at), LAMBDA v : v.name # name))]

\* The open window after on_char_change replaced self.vendors by the objects
\* load_vendors made.
WindowAfterLoad(w) == IF w.open THEN [w EXCEPT !.at = 0] ELSE w

\* VendorApp.__init__: the list is drawn, the tick is running and scheduled
\* (self.timer_running = True; self.after(1000, self.update_timers)).  pending
\* names the handler that waits in the error dialog of save_vendors;
\* close_writes counts the writes on_closing has attempted.
StartUi(vs) ==
    [rows |-> RowNames(vs), window |-> NoWindow, timer_running |-> TRUE,
     scheduled |-> TRUE, alive |-> TRUE, pending |-> "none", close_writes |-> 0]

IdleApp ==
    /\ vendors = <<>>
    /\ current_character = "Default"
    /\ characters = <<"Default">>
    /\ files = [key \in StorageKeys |-> NoFile]
    /\ lastOp = [op |-> "init"]
    /\ ui = StartUi(<<>>)

-----------------------------------------------------------------------------
(* Spec: the application, driven by its user *)

MaxVendors == 2         \* add_and_save is not tried on a collection this long

\* Records found in the data directory at start: written by hand or by an
\* older version, as load_vendors allows for.
LegacyNoMaximum ==
    [t |-> "obj", name |-> StrV("A"), zone |-> StrV("Z"),
     council_left |-> IntV(5000), last_reset |-> IsoStr(<<-7, 0, 0, 0>>),
     reset_maximum |-> Missing, categories |-> Missing]
LegacyRepeatedCategory ==
    [t |-> "obj", name |-> StrV("B"), zone |-> StrV("Z"),
     council_left |-> IntV(1000), last_reset |-> IsoStr(<<-7, 0, 0, 0>>),
     reset_maximum |-> IntV(1000), categories |-> ListV(<<"Armor", "Armor">>)]

InitialFileSystems ==
    {[key \in StorageKeys |->
        IF key = "Default" THEN d ELSE IF key = "Alt" THEN a ELSE NoFile] :
        d \in {NoFile, ListFile(<<LegacyNoMaximum>>)},
        a \in {NoFile, ListFile(<<LegacyRepeatedCategory>>)}}

\* VendorApp.__init__: the character list read from the data directory.
CharactersAtStart(fs) ==
    LET listed == {key \in StorageKeys : fs[key].k # "nofile"}
    IN  IF DEFAULT_CHARACTER \notin listed
        THEN <<DEFAULT_CHARACTER>> \o Sorted(listed)
        ELSE Sorted(listed)

\* The state after VendorApp.__init__ (a load that raises ends the program
\* before there is an application).
Init ==
    /\ now = 0
    /\ files \in InitialFileSystems
    /\ characters = CharactersAtStart(files)
    /\ current_character = characters[1]
    /\ ~load_vendors(current_character, files, now, TRUE).raised
    /\ vendors = load_vendors(current_character, files, now, TRUE).vendors
    /\ lastOp = [op |-> "init"]
    /\ probe = [fn |-> "none"]
    /\ ui = StartUi(vendors)

\* What the user types into the two forms.  The time fields are left empty
\* (0d 0h 0m), or hold 7 days, or hold text that is no integer.
CouncilIn == {StrV(""), NumStr(1), NumStr(5), StrV("x")}
TimeIn ==
    {[days |-> StrV(""), hours |-> StrV(""), minutes |-> StrV(""), override |-> FALSE],
     [days |-> NumStr(7), hours |-> StrV(""), minutes |-> StrV(""), override |-> FALSE],
     [days |-> StrV(""), hours |-> StrV("x"), minutes |-> StrV(""), override |-> FALSE]}
AddCategoriesIn ==
    {[checked |-> {}, custom_on |-> FALSE, custom |-> ""],
     [checked |-> {"Armor"}, custom_on |-> TRUE, custom |-> "Armor"]}
UpdateCategoriesIn ==
    {[checked |-> {}, custom_on |-> TRUE, custom |-> <<>>],
     [checked |-> {"Armor"}, custom_on |-> TRUE, custom |-> <<"Armor", "", "Armor">>]}

AddForms ==
    {[name |-> n, zone |-> "Z", council |-> c] @@ t @@ k :
        n \in {"A", "B"}, c \in {StrV(""), NumStr(5)},
        t \in {x \in TimeIn : x.days = StrV("") /\ x.hours = StrV("")},
        k \in AddCategoriesIn}
    \cup {[name |-> "", zone |-> "Z", council |-> NumStr(5)] @@ t @@ k :
        t \in {x \in TimeIn : x.days = StrV("") /\ x.hours = StrV("")},
        k \in {x \in AddCategoriesIn : x.checked = {}}}
    \cup {[name |-> "A", zone |-> "Z", council |-> StrV("x")] @@ t @@ k :
        t \in {x \in TimeIn : x.days = StrV("") /\ x.hours = StrV("")},
        k \in {x \in AddCategoriesIn : x.checked = {}}}
    \cup {[name |-> "A", zone |-> "Z", council |-> NumStr(5)] @@ t @@ k :
        t \in TimeIn, k \in {x \in AddCategoriesIn : x.checked = {}}}
UpdateForms ==
    {[council |-> c] @@ t @@ k :
        c \in {StrV(""), NumStr(1)},
        t \in {x \in TimeIn : x.days = StrV("") /\ x.hours = StrV("")},
        k \in UpdateCategoriesIn}
    \cup {[council |-> c] @@ t @@ k :
        c \in {StrV("x")}, t \in TimeIn,
        k \in {x \in UpdateCategoriesIn : x.checked = {}}}
    \cup {[council |-> c] @@ t @@ k :
        c \in {NumStr(1)}, t \in TimeIn,
        k \in {x \in UpdateCategoriesIn : x.checked = {}}}

\* add_and_save
AddVendor(form, outcome) ==
    /\ Len(vendors) < MaxVendors
    /\ LET made == NewVendorOf(form, now)
       IN  IF made.ok
           THEN /\ vendors' = Append(vendors, made.v)
                /\ files' = save_vendors(vendors', current_character, files, outcome)
                /\ lastOp' = [op |-> "add", ok |-> TRUE]
                /\ ui' = [ui EXCEPT !.rows = RowNames(vendors')]
           ELSE /\ UNCHANGED <<vendors, files, ui>>
                /\ lastOp' = [op |-> "add", ok |-> FALSE]
    /\ UNCHANGED <<current_character, characters, now, probe>>

\* update_vendor_action, from the update window of vendors[i]
UpdateVendor(i, form, outcome) ==
    /\ i \in 1 .. Len(vendors)
    /\ LET made == UpdatedVendorOf(vendors[i], form, now)
       IN  IF made.ok
           THEN /\ vendors' = [vendors EXCEPT ![i] = made.v]
                /\ files' = save_vendors(vendors', current_character, files, outcome)
                /\ lastOp' = [op |-> "update", ok |-> TRUE]
                /\ ui' = [ui EXCEPT !.rows = RowNames(vendors')]
           ELSE /\ UNCHANGED <<vendors, files, ui>>
                /\ lastOp' = [op |-> "update", ok |-> FALSE]
    /\ UNCHANGED <<current_character, characters, now, probe>>

\* reset_now, from the update window of vendors[i]; confirmed is the answer to
\* the "Confirm Reset" dialog
ResetNow(i, confirmed, outcome) ==
    /\ i \in 1 .. Len(vendors)
    /\ IF confirmed
       THEN /\ vendors' = [vendors EXCEPT ![i] = ResetVendorOf(vendors[i], now)]
            /\ files' = save_vendors(vendors', current_character, files, outcome)
            /\ ui' = [ui EXCEPT !.rows = RowNames(vendors')]
       ELSE UNCHANGED <<vendors, files, ui>>
    /\ lastOp' = [op |-> "reset", ok |-> confirmed]
    /\ UNCHANGED <<current_character, characters, now, probe>>

\* delete_vendor of vendors[i]; confirmed is the answer to the "Delete
\* Vendor" dialog
DeleteVendor(i, confirmed, outcome) ==
    /\ i \in 1 .. Len(vendors)
    /\ IF confirmed
       THEN /\ vendors' = WithoutName(vendors, vendors[i].name)
            /\ files' = save_vendors(vendors', current_character, files, outcome)
            /\ ui' = [ui EXCEPT !.rows = RowNames(vendors'),
                                !.window = WindowAfterDelete(@, vendors, vendors[i].name)]
       ELSE UNCHANGED <<vendors, files, ui>>
    /\ lastOp' = [op |-> "delete", ok |-> confirmed]
    /\ UNCHANGED <<current_character, characters, now, probe>>

\* on_char_change: the character menu set to c.  An exception from
\* load_vendors is caught after current_character was assigned.
OnCharChange(c, read_ok) ==
    /\ \E j \in 1 .. Len(characters) : characters[j] = c
    /\ LET loaded == load_vendors(c, files, now, read_ok)
       IN  /\ current_character' = c
           /\ vendors' = IF loaded.raised THEN vendors ELSE loaded.vendors
           /\ lastOp' = [op |-> "switch", ok |-> ~loaded.raised]
           /\ ui' = IF loaded.raised THEN ui
                    ELSE [ui EXCEPT !.rows = RowNames(vendors'),
                                    !.window = WindowAfterLoad(@)]
    /\ UNCHANGED <<characters, files, now, probe>>

Next ==
    \/ \E form \in AddForms : AddVendor(form, "ok")
    \/ \E i \in 1 .. MaxVendors, form \in UpdateForms : UpdateVendor(i, form, "ok")
    \/ \E i \in 1 .. MaxVendors, confirmed \in BOOLEAN : ResetNow(i, confirmed, "ok")
    \/ \E i \in 1 .. MaxVendors, confirmed \in BOOLEAN : DeleteVendor(i, confirmed, "ok")

Spec == Init /\ [][Next]_vars

\* C5: in every state reachable by add, update, reset and delete, no two
\* vendors of the collection have the same name (an add of a name already
\* present replaces the vendor instead of making a second entry).
C5_UniqueNames ==
    \A i, j \in 1 .. Len(vendors) :
        i # j => vendors[i].name # vendors[j].name

\* C6: a vendor that update_vendor_action has changed, whether it was added or
\* loaded from a record, has reset_maximum >= every council_left it has held
\* since it entered the collection, also after later updates and resets.
C6_ResetMaximumIsRunningMax ==
    \A i \in 1 .. Len(vendors) :
        vendors[i].h_updated => vendors[i].reset_maximum >= vendors[i].h_held

\* C7: a confirmed reset sets the vendor's last_reset to the current time, sets
\* council_left to reset_maximum when reset_maximum > 0 and leaves it alone
\* otherwise; the vendor's name, zone, reset_maximum and categories and every
\* other vendor of the collection are unchanged.
C7_ResetNowEffect ==
    [][(lastOp'.op = "reset" /\ lastOp'.ok) =>
        /\ Len(vendors') = Len(vendors)
        /\ \E i \in 1 .. Len(vendors) :
            /\ vendors'[i].last_reset = now
            /\ vendors'[i].council_left =
                   IF vendors[i].reset_maximum > 0
                   THEN vendors[i].reset_maximum ELSE vendors[i].council_left
            /\ vendors'[i].name = vendors[i].name
            /\ vendors'[i].zone = vendors[i].zone
            /\ vendors'[i].reset_maximum = vendors[i].reset_maximum
            /\ vendors'[i].categories = vendors[i].categories
            /\ \A j \in 1 .. Len(vendors) :
                   j # i => Fields(vendors'[j]) = Fields(vendors[j])]_vars

\* C7 witness: a reset has refilled a vendor whose council_left an update had
\* set below its reset_maximum, beside another vendor.
C7_Witness ==
    /\ lastOp.op = "reset" /\ lastOp.ok
    /\ Len(vendors) = 2
    /\ \E i \in 1 .. Len(vendors) :
        /\ vendors[i].h_updated
        /\ vendors[i].last_reset = now
        /\ vendors[i].reset_maximum = 5000
        /\ vendors[i].council_left = 5000

\* C8: in every reachable state each vendor's categories hold no entry twice
\* (exact match): vendors added, vendors updated, vendors loaded from a record.
C8_NoRepeatedCategory ==
    \A i \in 1 .. Len(vendors) :
        \A a, b \in 1 .. Len(vendors[i].categories) :
            a # b => vendors[i].categories[a] # vendors[i].categories[b]

-----------------------------------------------------------------------------
(* SpecClamp: the time normalizer called on form input *)

DaysIn == {IntV(n) : n \in -1 .. MaxDaysIn} \cup {NoneV, StrV("x")}
HoursIn == {IntV(n) : n \in -1 .. MaxHoursIn} \cup {NoneV, StrV("x")}
MinutesIn == {IntV(n) : n \in -1 .. MaxMinutesIn} \cup {NoneV, StrV("x")}

InitClamp ==
    /\ IdleApp
    /\ now \in 0 .. MaxClockStart
    /\ probe \in [fn : {"args"}, days : DaysIn, hours : HoursIn,
                  minutes : MinutesIn, override : BOOLEAN]

CallClamp ==
    /\ probe.fn = "args"
    /\ probe' = [probe EXCEPT !.fn = "clamp"] @@
                [out |-> _clamp_reset_inputs(probe.days, probe.hours,
                                             probe.minutes, probe.override)]
    /\ UNCHANGED <<appVars, now>>

CallCalculateLastReset ==
    /\ probe.fn = "args"
    /\ probe' = [probe EXCEPT !.fn = "calc"] @@
                [out |-> calculate_last_reset(probe.days, probe.hours,
                                              probe.minutes, probe.override, now)]
    /\ UNCHANGED <<appVars, now>>

NextClamp == CallClamp \/ CallCalculateLastReset

SpecClamp == InitClamp /\ [][NextClamp]_vars

\* The form input of a probe is three non-negative integers.
NonNegInts(p) ==
    /\ p.days.t = "int" /\ p.days.v >= 0
    /\ p.hours.t = "int" /\ p.hours.v >= 0
    /\ p.minutes.t = "int" /\ p.minutes.v >= 0

InputTotal(p) == p.days.v * 1440 + p.hours.v * 60 + p.minutes.v
OutTotal(c) == c[1] * 1440 + c[2] * 60 + c[3]

\* C1 as stated: without override, for non-negative integers d, h, m the
\* normalized triple's total d'*1440+h'*60+m' is within 0..9959 and never
\* above the input's total.
C1_AsStated ==
    (probe.fn = "clamp" /\ ~probe.override /\ NonNegInts(probe)) =>
        /\ 0 <= OutTotal(probe.out)
        /\ OutTotal(probe.out) <= 9959
        /\ OutTotal(probe.out) <= InputTotal(probe)

\* C1 (amended): without override, for non-negative integers d, h, m the
\* normalized triple's total d'*1440+h'*60+m' is within 0..10079 (6 days 23
\* hours 59 minutes is 10079 minutes, not 9959) and never above the input's
\* total.
C1_ClampedNeverIncreased ==
    (probe.fn = "clamp" /\ ~probe.override /\ NonNegInts(probe)) =>
        /\ 0 <= OutTotal(probe.out)
        /\ OutTotal(probe.out) <= 10079
        /\ OutTotal(probe.out) <= InputTotal(probe)

\* C1 witness: an input above the ceiling was clamped down to the ceiling.
C1_Witness ==
    /\ probe.fn = "clamp" /\ ~probe.override /\ NonNegInts(probe)
    /\ InputTotal(probe) > 10079
    /\ OutTotal(probe.out) = 10079

\* C2: without override the result is the canonical triple of
\* T = min(total, 6d 23h 59m): (T div 1440, (T mod 1440) div 60, T mod 60);
\* above the ceiling it is exactly (6, 23, 59); hours >= 24 and minutes >= 60
\* are carried over, so 0 <= h' <= 23 and 0 <= m' <= 59.
C2_CanonicalTriple ==
    (probe.fn = "clamp" /\ ~probe.override /\ NonNegInts(probe)) =>
        LET ceiling == 6 * 1440 + 23 * 60 + 59
            T == Min(InputTotal(probe), ceiling)
        IN  /\ probe.out = <<T \div 1440, (T % 1440) \div 60, T % 60>>
            /\ (InputTotal(probe) > ceiling => probe.out = <<6, 23, 59>>)
            /\ probe.out[2] \in 0 .. 23
            /\ probe.out[3] \in 0 .. 59

\* C2 witness: hours >= 24 and minutes >= 60 below the ceiling were carried.
C2_Witness ==
    /\ probe.fn = "clamp" /\ ~probe.override /\ NonNegInts(probe)
    /\ probe.hours.v >= 24 /\ probe.minutes.v >= 60
    /\ InputTotal(probe) < 6 * 1440 + 23 * 60 + 59
    /\ probe.out[1] = probe.days.v + 1
    /\ probe.out[2] = probe.hours.v - 24 + 1
    /\ probe.out[3] = probe.minutes.v - 60

\* C3: with override the result is (d, min(h,23), min(m,59)): days unclamped,
\* hours and minutes capped on their own, nothing carried.
C3_OverrideCapsFields ==
    (probe.fn = "clamp" /\ probe.override /\ NonNegInts(probe)) =>
        probe.out = <<probe.days.v, Min(probe.hours.v, 23), Min(probe.minutes.v, 59)>>

\* C3 witness: days above 6 kept, hours above 23 capped without a day rollover.
C3_Witness ==
    /\ probe.fn = "clamp" /\ probe.override /\ NonNegInts(probe)
    /\ probe.days.v > 6 /\ probe.hours.v > 23 /\ probe.minutes.v > 59
    /\ probe.out = <<probe.days.v, 23, 59>>

\* C4: for a fixed clock, nextReset - now = (lastReset + 7 days) - now is
\* exactly the duration of the normalized triple; without override lastReset
\* is never later than now; with override and a normalized duration above 7
\* days lastReset is later than now.
C4_NextResetIsNowPlusDuration ==
    probe.fn = "calc" =>
        LET c == _clamp_reset_inputs(probe.days, probe.hours, probe.minutes,
                                     probe.override)
            duration == (c[1] * 1440 + c[2] * 60 + c[3]) * 60 * TicksPerSecond
            week == 7 * 1440 * 60 * TicksPerSecond
        IN  /\ (probe.out + week) - now = duration
            /\ next_reset_of(probe.out) - now = duration
            /\ (~probe.override => probe.out <= now)
            /\ (probe.override /\ duration > week => probe.out > now)

\* C4 witness: an override countdown above 7 days put lastReset in the future.
C4_Witness ==
    /\ probe.fn = "calc" /\ probe.override /\ NonNegInts(probe)
    /\ probe.days.v = 7 /\ probe.hours.v = 1
    /\ probe.out > now

-----------------------------------------------------------------------------
(* SpecStore: save_vendors and load_vendors called on collections and on     *)
(* records of the data directory                                             *)

\* Vendor objects of a collection handed to save_vendors: last_reset with and
\* without a fraction of a second, before and after the epoch of the model.
VendorsIn ==
    {[name |-> n.name, zone |-> n.zone,
      council_left |-> c.council_left, reset_maximum |-> c.reset_maximum,
      categories |-> cats, last_reset |-> lr,
      h_held |-> c.council_left, h_updated |-> FALSE] :
        n \in {[name |-> "A", zone |-> "Z"], [name |-> "B", zone |-> ""]},
        c \in {[council_left |-> 5000, reset_maximum |-> 5000],
               [council_left |-> 0, reset_maximum |-> 5000],
               [council_left |-> -1000, reset_maximum |-> 0]},
        cats \in {<<>>, <<"Misc", "Armor">>},
        lr \in {1, Hour + Minute + Second, 0 - Day - 1}}

\* The non-empty collections
CollectionsIn ==
    {<<v>> : v \in VendorsIn} \cup {<<v, w>> : v, w \in VendorsIn}

\* Entries of a vendor list on disk: complete objects, an object whose
\* council_left is no number, an object without council_left, and an element
\* that is no object.
EntryA ==
    [t |-> "obj", name |-> StrV("A"), zone |-> StrV("Z"),
     council_left |-> IntV(5000), last_reset |-> IsoStr(<<-7, 0, 0, 0>>),
     reset_maximum |-> IntV(5000), categories |-> ListV(<<"Armor">>)]
EntryB ==
    [t |-> "obj", name |-> StrV("B"), zone |-> StrV(""),
     council_left |-> NumStr(1000), last_reset |-> IsoStr(<<-1, 12>>),
     reset_maximum |-> IntV(2000), categories |-> ListV(<<>>)]
EntryBadCouncil == [EntryA EXCEPT !.name = StrV("C"), !.council_left = StrV("abc")]
EntryNoCouncil == [EntryA EXCEPT !.name = StrV("D"), !.council_left = Missing]
EntryNotObject == IntV(42)
EntriesIn == {EntryA, EntryB, EntryBadCouncil, EntryNoCouncil, EntryNotObject}

MaxItems == 3           \* the longest vendor list on disk
ItemsIn ==
    UNION {[1 .. n -> EntriesIn] : n \in 1 .. MaxItems}

\* The record of a vendor list, in the three shapes load_vendors reads
RecordsOf(items) ==
    {ListFile(items), DictFile(ListV(items), Missing),
     DictFile(Missing, ListV(items))}

EmptyDir == [key \in StorageKeys |-> NoFile]

InitStore ==
    /\ IdleApp
    /\ now \in 0 .. MaxClockStart
    /\ probe \in
         {[fn |-> "save_args", character_name |-> c, fs |-> EmptyDir,
           vs |-> vs, items |-> <<>>] :
              c \in CharacterNames, vs \in CollectionsIn}
         \cup
         UNION {{[fn |-> "load_args", character_name |-> c,
                  fs |-> [EmptyDir EXCEPT ![character_file_path(c)] = r],
                  vs |-> <<>>, items |-> items] :
                     c \in CharacterNames, r \in RecordsOf(items)} :
                items \in ItemsIn}

\* save_vendors(vs, character_name), the write going through
CallSaveVendors ==
    /\ probe.fn = "save_args"
    /\ probe' = [probe EXCEPT
                    !.fn = "load_args",
                    !.fs = save_vendors(probe.vs, probe.character_name, probe.fs, "ok")]
    /\ UNCHANGED <<appVars, now>>

\* load_vendors(character_name), the read going through
CallLoadVendors ==
    /\ probe.fn = "load_args"
    /\ probe' = [probe EXCEPT !.fn = "loaded"] @@
                [out |-> load_vendors(probe.character_name, probe.fs, now, TRUE)]
    /\ UNCHANGED <<appVars, now>>

NextStore == CallSaveVendors \/ CallLoadVendors

SpecStore == InitStore /\ [][NextStore]_vars

\* C9: save_vendors of a non-empty collection followed by load_vendors of the
\* same character returns a collection of the same length and order in which
\* each vendor equals the original in name, zone, council_left, reset_maximum
\* and categories, and in last_reset to the second.
C9_RoundTrip ==
    (probe.fn = "loaded" /\ probe.vs # <<>>) =>
        /\ ~probe.out.raised
        /\ Len(probe.out.vendors) = Len(probe.vs)
        /\ \A i \in 1 .. Len(probe.vs) :
            LET a == probe.vs[i]
                b == probe.out.vendors[i]
            IN  /\ b.name = a.name
                /\ b.zone = a.zone
                /\ b.council_left = a.council_left
                /\ b.reset_maximum = a.reset_maximum
                /\ b.categories = a.categories
                /\ b.last_reset \div Second = a.last_reset \div Second

\* C9 witness: a collection of two vendors came back, one with a last_reset
\* before the epoch and off the second, one with categories and a last_reset
\* on a second that is not a full minute.
C9_Witness ==
    /\ probe.fn = "loaded" /\ Len(probe.vs) = 2
    /\ probe.vs[1].last_reset = 0 - Day - 1
    /\ probe.vs[2].last_reset = Hour + Minute + Second
    /\ probe.vs[2].categories = <<"Misc", "Armor">>
    /\ probe.vs[1].name = probe.vs[2].name
    /\ Len(probe.out.vendors) = 2
    /\ probe.out.vendors[2].last_reset = Hour + Minute + Second

\* An entry of a vendor list is well-formed when it is an object that has the
\* six fields, each of its type (spec.md, section 6: a field of the wrong
\* type, a missing field and an element that is no object are malformed).
WellFormed(e) ==
    /\ e.t = "obj"
    /\ e.name.t = "str" /\ e.zone.t = "str"
    /\ e.council_left.t \in {"int", "numstr"}
    /\ e.reset_maximum.t \in {"int", "numstr"}
    /\ e.last_reset.t = "isostr"
    /\ e.categories.t = "list"

\* C10: load_vendors of a record whose vendor list mixes well-formed and
\* malformed entries does not raise and returns exactly the vendors of the
\* well-formed entries, in their order.
C10_MalformedEntriesSkipped ==
    (/\ probe.fn = "loaded"
     /\ \E i \in 1 .. Len(probe.items) : WellFormed(probe.items[i])
     /\ \E i \in 1 .. Len(probe.items) : ~WellFormed(probe.items[i])) =>
        LET good == SelectSeq(probe.items, WellFormed)
        IN  /\ ~probe.out.raised
            /\ Len(probe.out.vendors) = Len(good)
            /\ \A i \in 1 .. Len(good) :
                   probe.out.vendors[i] = from_dict(good[i], now).v

-----------------------------------------------------------------------------
(* SpecLoad: load_vendors called on every kind of record                     *)

\* The vendor lists a record holds in its fields
ListsIn == {<<>>, <<EntryA>>, <<EntryB>>, <<EntryA, EntryB>>, <<EntryB, EntryNotObject>>}

\* Values of the "vendors" and "vendor_list" fields that are no list
NoListIn == {Missing, NoneV, StrV("x")}

\* Records with a vendor list: the shape, the lists a and b of the fields
\* "vendors" and "vendor_list" (a alone for the bare list)
ShapedRecords ==
    {[shape |-> "list", a |-> a, b |-> <<>>, record |-> ListFile(a)] : a \in ListsIn}
    \cup {[shape |-> "vendors", a |-> a, b |-> <<>>,
           record |-> DictFile(ListV(a), Missing)] : a \in ListsIn}
    \cup {[shape |-> "vendor_list", a |-> a, b |-> <<>>,
           record |-> DictFile(Missing, ListV(a))] : a \in ListsIn}
    \cup {[shape |-> "both", a |-> a, b |-> b,
           record |-> DictFile(ListV(a), ListV(b))] : a \in ListsIn, b \in ListsIn}

\* Records without a vendor list
DegenerateRecords ==
    {[shape |-> "none", a |-> <<>>, b |-> <<>>, record |-> r] :
        r \in {NoFile, Garbage, Undecodable, ScalarFile}
              \cup {DictFile(x, y) : x \in NoListIn, y \in NoListIn}}

InitLoad ==
    /\ IdleApp
    /\ now \in 0 .. MaxClockStart
    /\ probe \in
         {[fn |-> "load_args", character_name |-> c, read_ok |-> ok,
           shape |-> r.shape, a |-> r.a, b |-> r.b,
           fs |-> [key \in StorageKeys |->
                     IF key = character_file_path(c) THEN r.record ELSE other]] :
              c \in CharacterNames, ok \in BOOLEAN,
              r \in ShapedRecords \cup DegenerateRecords,
              other \in {NoFile, ListFile(<<EntryA>>)}}

\* load_vendors(character_name); it writes nothing, fs_after is the data
\* directory as it leaves it
CallLoad ==
    /\ probe.fn = "load_args"
    /\ probe' = [probe EXCEPT !.fn = "loaded"] @@
                [out |-> load_vendors(probe.character_name, probe.fs, now, probe.read_ok),
                 fs_after |-> probe.fs]
    /\ UNCHANGED <<appVars, now>>

NextLoad == CallLoad

SpecLoad == InitLoad /\ [][NextLoad]_vars

\* C11: load_vendors does not raise and returns the empty collection when the
\* character has no record, when the record is not parseable JSON, when
\* reading it fails, or when its top-level value holds no vendor list; no
\* record of the data directory is modified.
C11_LoadDegradesToEmpty ==
    (probe.fn = "loaded" /\ (probe.shape = "none" \/ ~probe.read_ok)) =>
        /\ ~probe.out.raised
        /\ probe.out.vendors = <<>>
        /\ probe.fs_after = probe.fs

\* load_vendors of the probe's character when its record is the bare list L
BareListResult(L) ==
    load_vendors(probe.character_name,
                 [probe.fs EXCEPT ![character_file_path(probe.character_name)] = ListFile(L)],
                 now, TRUE)

\* C12 as stated: the bare list L, {"vendors": L} and {"vendor_list": L} load
\* to the same result, and when both fields are present the result is the one
\* of the "vendors" field.
C12_AsStated ==
    (probe.fn = "loaded" /\ probe.read_ok /\ probe.shape # "none") =>
        probe.out = BareListResult(probe.a)

\* C12: the bare list L, {"vendors": L} and {"vendor_list": L} load to the
\* same result; when both fields hold lists, the result is the one of
\* "vendors" unless that list is empty, and then the one of "vendor_list".
C12_ShapesAgree ==
    (probe.fn = "loaded" /\ probe.read_ok /\ probe.shape # "none") =>
        probe.out = BareListResult(IF probe.shape = "both" /\ probe.a = <<>>
                                   THEN probe.b ELSE probe.a)

\* C12 witness: both fields present with different vendors, the vendor of
\* "vendors" is the one returned.
C12_Witness ==
    /\ probe.fn = "loaded" /\ probe.read_ok /\ probe.shape = "both"
    /\ probe.a = <<EntryB>> /\ probe.b = <<EntryA>>
    /\ ~probe.out.raised
    /\ Len(probe.out.vendors) = 1 /\ probe.out.vendors[1].name = "B"

-----------------------------------------------------------------------------
(* SpecName: the two derivations of a character's identifier from a name     *)

MaxNameLen == 4         \* the longest name typed, but for the example
NameAlphabet == {"a", "2", " ", "!", "-"}
NamesIn ==
    UNION {[1 .. n -> NameAlphabet] : n \in 0 .. MaxNameLen}
    \cup {<<"A", "l", "!", "c", "e", " ", "2">>, <<"a", "_", "2", "!", " ", " ">>}

InitName ==
    /\ IdleApp
    /\ now = 0
    /\ probe \in {[fn |-> "name_args", name |-> cs] : cs \in NamesIn}

\* add_new_character up to the identifier it registers: rejected (no name,
\* only whitespace, nothing left by the filter), or safe_name and the storage
\* key character_file_path builds from safe_name.
CallAddNewCharacterName ==
    /\ probe.fn = "name_args"
    /\ LET name == probe.name
           safe_name == SafeNameOf(name)
       IN  probe' =
             IF name = <<>> \/ Strip(name) = <<>> \/ safe_name = <<>>
             THEN [fn |-> "created", name |-> name, ok |-> FALSE]
             ELSE [fn |-> "created", name |-> name, ok |-> TRUE,
                   safe_name |-> safe_name, key |-> KeyChars(safe_name)]
    /\ UNCHANGED <<appVars, now>>

\* character_file_path(name)
CallCharacterFilePath ==
    /\ probe.fn = "name_args"
    /\ probe' = [fn |-> "file_path", name |-> probe.name, key |-> KeyChars(probe.name)]
    /\ UNCHANGED <<appVars, now>>

NextName == CallAddNewCharacterName \/ CallCharacterFilePath

SpecName == InitName /\ [][NextName]_vars

\* The characters of cs that are alphanumeric, space, hyphen or underscore, in
\* their order
Allowed(cs) ==
    SelectSeq(cs, LAMBDA c : c \in {"a", "A", "l", "c", "e", "2", " ", "-", "_"})

AllSpaces(cs) == \A i \in 1 .. Len(cs) : cs[i] = " "

\* id is kept with its trailing whitespace removed
TrailingTrimmed(kept, id) ==
    /\ Len(id) <= Len(kept)
    /\ id = SubSeq(kept, 1, Len(id))
    /\ AllSpaces(SubSeq(kept, Len(id) + 1, Len(kept)))
    /\ (id # <<>> => id[Len(id)] # " ")

\* id is kept with its leading and trailing whitespace removed
BothEndsTrimmed(kept, id) ==
    \E k \in 0 .. Len(kept) :
        /\ AllSpaces(SubSeq(kept, 1, k))
        /\ TrailingTrimmed(SubSeq(kept, k + 1, Len(kept)), id)
        /\ (id # <<>> => id[1] # " ")

-----------------------------------------------------------------------------
(* SpecChars: characters created and switched, vendors added                 *)

\* The names typed into the "New Character" dialog: nothing, a space, only a
\* character the filter drops, and spellings of "Alt", "Bo" and "Default".
DisplayNamesIn ==
    {<<>>, <<" ">>, <<"!">>,
     <<"A", "l", "t">>, <<" ", "A", "l", "t", "!">>,
     <<"B", "o">>, <<"B", "!", "o", " ">>,
     <<"D", "e", "f", "a", "u", "l", "t">>}

\* An add_new_character that only rejects names with nothing left.
RejectsOnlyEmpty(name, chars) ==
    name = <<>> \/ Strip(name) = <<>> \/ SafeNameOf(name) = <<>>

\* add_new_character's early returns: no name, only whitespace, nothing left
\* by the filter, safe_name already in self.characters.
Rejects(name, chars) ==
    \/ name = <<>>
    \/ Strip(name) = <<>>
    \/ SafeNameOf(name) = <<>>
    \/ \E j \in 1 .. Len(chars) : chars[j] = FromChars(SafeNameOf(name))

\* A seeding that writes the vendors it loaded back to Default's record.
SeedIntoDefault(safe_name, fs, clock) ==
    IF fs[character_file_path(DEFAULT_CHARACTER)].k = "nofile" THEN fs
    ELSE LET default_vendors == load_vendors(DEFAULT_CHARACTER, fs, clock, TRUE)
         IN  IF default_vendors.raised THEN fs
             ELSE save_vendors(default_vendors.vendors, DEFAULT_CHARACTER, fs, "ok")

\* "If Default existed, copy default vendors into new char": the data
\* directory afterwards.  An exception of load_vendors is caught and printed.
SeedDefault(safe_name, fs, clock) ==
    IF fs[character_file_path(DEFAULT_CHARACTER)].k = "nofile" THEN fs
    ELSE LET default_vendors == load_vendors(DEFAULT_CHARACTER, fs, clock, TRUE)
         IN  IF default_vendors.raised THEN fs
             ELSE save_vendors(default_vendors.vendors, safe_name, fs, "ok")

\* add_new_character: the application afterwards.  char_var.set(safe_name)
\* runs on_char_change, before the seeding.
add_new_character(name, chars, cur, vs, fs, clock) ==
    IF Rejects(name, chars)
    THEN [ok |-> FALSE, characters |-> chars, current_character |-> cur,
          vendors |-> vs, files |-> fs]
    ELSE LET safe_name == FromChars(SafeNameOf(name))
             loaded == load_vendors(safe_name, fs, clock, TRUE)
         IN  [ok |-> TRUE,
              characters |-> SortedSeq(Append(chars, safe_name)),
              current_character |-> safe_name,
              vendors |-> IF loaded.raised THEN vs ELSE loaded.vendors,
              files |-> SeedDefault(safe_name, fs, clock)]

CharFileSystems ==
    {[key \in StorageKeys |->
        IF key = "Default" THEN d ELSE IF key = "Alt" THEN a ELSE NoFile] :
        d \in {NoFile, ListFile(<<LegacyNoMaximum>>),
               ListFile(<<LegacyNoMaximum, EntryNotObject>>)},
        a \in {NoFile, ListFile(<<LegacyRepeatedCategory>>)}}

\* The state after VendorApp.__init__
InitChars ==
    /\ now = 0
    /\ files \in CharFileSystems
    /\ characters = CharactersAtStart(files)
    /\ current_character = characters[1]
    /\ ~load_vendors(current_character, files, now, TRUE).raised
    /\ vendors = load_vendors(current_character, files, now, TRUE).vendors
    /\ lastOp = [op |-> "init"]
    /\ probe = [fn |-> "none"]
    /\ ui = StartUi(vendors)

\* The "Add New Character" button, name typed into the dialog
AddNewCharacter(name) ==
    /\ LET after == add_new_character(name, characters, current_character,
                                      vendors, files, now)
       IN  /\ characters' = after.characters
           /\ current_character' = after.current_character
           /\ vendors' = after.vendors
           /\ files' = after.files
           /\ lastOp' = [op |-> "create", ok |-> after.ok, name |-> name]
           /\ ui' = IF ~after.ok \/ load_vendors(after.current_character, files,
                                                  now, TRUE).raised
                    THEN ui
                    ELSE [ui EXCEPT !.rows = RowNames(vendors'),
                                    !.window = WindowAfterLoad(@)]
    /\ UNCHANGED <<now, probe>>

CharsForms ==
    {f \in AddForms : /\ f.name = "B" /\ f.council = NumStr(5)
                      /\ f.days = StrV("") /\ f.hours = StrV("")
                      /\ f.checked = {}}

NextChars ==
    \/ \E name \in DisplayNamesIn : AddNewCharacter(name)
    \/ \E c \in CharacterNames : OnCharChange(c, TRUE)
    \/ \E form \in CharsForms : AddVendor(form, "ok")

SpecChars == InitChars /\ [][NextChars]_vars

\* The identifier of a typed name: its allowed characters, trimmed
IdentifierOf(name) == FromChars(SafeNameOf(name))

InCharacterList(id) == \E j \in 1 .. Len(characters) : characters[j] = id

\* C14: add_new_character with a name that is empty after sanitization, or
\* whose sanitized identifier is already in the character list, leaves the
\* character list, the active character, the in-memory collection and every
\* persisted record unchanged.
C14_RejectedCreateChangesNothing ==
    [][(/\ lastOp'.op = "create"
        /\ \/ SafeNameOf(lastOp'.name) = <<>>
           \/ InCharacterList(IdentifierOf(lastOp'.name)))
       => /\ ~lastOp'.ok
          /\ UNCHANGED <<characters, current_character, vendors, files>>]_vars

\* C14 witness: "Alt" typed with a leading space and a "!" while Alt exists
\* with a record of its own beside Default's; the create was rejected.
C14_Witness ==
    /\ lastOp.op = "create" /\ ~lastOp.ok
    /\ lastOp.name = <<" ", "A", "l", "t", "!">>
    /\ InCharacterList("Alt")
    /\ files["Alt"] = ListFile(<<LegacyRepeatedCategory>>)
    /\ files["Default"].k = "list"

\* The collection a vendor list on disk holds, field by field
FieldsOfRecord(record) ==
    LET loaded == LoadItems(record.items, 0).vendors
    IN  [i \in 1 .. Len(loaded) |-> Fields(loaded[i])]

\* The vendors of the entries of a vendor list that make a Vendor, field by
\* field: the collection of a record whose other entries are skipped
FieldsOfLoadable(items) ==
    LET loadable == SelectSeq(items, LAMBDA e : e.t = "obj" /\ from_dict(e, 0).ok)
    IN  [i \in 1 .. Len(loadable) |-> Fields(from_dict(loadable[i], 0).v)]

\* C15: after a successful add_new_character while Default has a record, the
\* record of the new character holds Default's vendors (same vendors, order
\* and field values; the in-memory ones when Default is the active character)
\* and Default's record is unchanged; without a Default record the new
\* character has no record and no vendors.
C15_NewCharacterSeededFromDefault ==
    [][(lastOp'.op = "create" /\ lastOp'.ok) =>
        LET id == IdentifierOf(lastOp'.name)
        IN  /\ files'["Default"] = files["Default"]
            /\ IF files["Default"].k = "nofile"
               THEN /\ files'[id] = NoFile
                    /\ load_vendors(id, files', now, TRUE).vendors = <<>>
               ELSE /\ files'[id].k = "list"
                    /\ FieldsOfRecord(files'[id]) = FieldsOfLoadable(files["Default"].items)
                    /\ (current_character = DEFAULT_CHARACTER =>
                          FieldsOfRecord(files'[id]) =
                            [i \in 1 .. Len(vendors) |-> Fields(vendors[i])])]_vars

-----------------------------------------------------------------------------
(* The vendor list and the timers: update_vendor_list, update_timers         *)

\* str.lower(), character by character
LowerChar(c) ==
    CASE c = "A" -> "a" [] c = "B" -> "b" [] c = "Z" -> "z" [] c = "M" -> "m"
      [] OTHER -> c
Lower(cs) == [i \in 1 .. Len(cs) |-> LowerChar(cs[i])]

\* ' '.join(words), on characters
RECURSIVE JoinSpace(_)
JoinSpace(words) ==
    IF words = <<>> THEN <<>>
    ELSE IF Len(words) = 1 THEN Chars(words[1])
    ELSE JoinSpace(SubSeq(words, 1, Len(words) - 1)) \o <<" ">> \o Chars(words[Len(words)])

\* f"{v.name} {v.zone} {' '.join(v.categories)}".lower()
Blob(v) ==
    Lower(Chars(v.name) \o <<" ">> \o Chars(v.zone) \o <<" ">> \o JoinSpace(v.categories))

\* query in blob
Contains(query, blob) ==
    \E i \in 0 .. Len(blob) - Len(query) :
        SubSeq(blob, i + 1, i + Len(query)) = query

\* The filter loop of update_vendor_list; filter_text is what the filter
\* entry holds
Filtered(vs, filter_text) ==
    LET query == Strip(Lower(filter_text))
    IN  SelectSeq(vs, LAMBDA v : Contains(query, Blob(v)))

\* A list left in the order of the collection.
KeepOrder(vs) == vs

\* sorted(filtered, key=lambda x: x.next_reset): stable
RECURSIVE SortedByNextReset(_)
SortedByNextReset(vs) ==
    IF vs = <<>> THEN <<>>
    ELSE LET front == SortedByNextReset(SubSeq(vs, 1, Len(vs) - 1))
             v == vs[Len(vs)]
             k == Cardinality({i \in 1 .. Len(front) : next_reset(front[i]) <= next_reset(v)})
         IN  SubSeq(front, 1, k) \o <<v>> \o SubSeq(front, k + 1, Len(front))

THRESH == timedelta(0, 1, 0)

\* A grouping that also splits at a gap of exactly one hour.
RECURSIVE GroupSplitsAtThreshold(_)
GroupSplitsAtThreshold(vs) ==
    IF vs = <<>> THEN <<>>
    ELSE IF Len(vs) = 1 THEN <<vs>>
    ELSE LET clusters == GroupSplitsAtThreshold(SubSeq(vs, 1, Len(vs) - 1))
             td == next_reset(vs[Len(vs)]) - next_reset(vs[Len(vs) - 1])
         IN  IF td >= THRESH THEN Append(clusters, <<vs[Len(vs)]>>)
             ELSE [clusters EXCEPT ![Len(clusters)] = Append(@, vs[Len(vs)])]

\* _group_vendors_by_reset_time
RECURSIVE _group_vendors_by_reset_time(_)
_group_vendors_by_reset_time(vs) ==
    IF vs = <<>> THEN <<>>
    ELSE IF Len(vs) = 1 THEN <<vs>>
    ELSE LET clusters == _group_vendors_by_reset_time(SubSeq(vs, 1, Len(vs) - 1))
             td == next_reset(vs[Len(vs)]) - next_reset(vs[Len(vs) - 1])
         IN  IF td > THRESH THEN Append(clusters, <<vs[Len(vs)]>>)
             ELSE [clusters EXCEPT ![Len(clusters)] = Append(@, vs[Len(vs)])]

\* A border that is drawn from two clusters on.
BorderColorFromTwo(i, total_clusters) ==
    IF total_clusters >= 2 /\ i = 1 THEN "#32CD32"
    ELSE IF total_clusters >= 2 /\ i = total_clusters THEN "#8B0000"
    ELSE "None"

\* border_color of the i-th cluster (the first is 1): light green, dark red
\* or None
BorderColor(i, total_clusters) ==
    IF total_clusters >= 3 /\ i = 1 THEN "#32CD32"
    ELSE IF total_clusters >= 3 /\ i = total_clusters THEN "#8B0000"
    ELSE "None"

\* A background that looks at the reset time first.
BackgroundPendingFirst(vendor, clock) ==
    IF next_reset(vendor) - clock <= 0 THEN "#90EE90"
    ELSE IF vendor.council_left = 0 THEN "#D3D3D3"
    ELSE "SystemButtonFace"

\* bg of a vendor's frame: grey when empty, light green when the reset is
\* pending
Background(vendor, clock) ==
    IF vendor.council_left = 0 THEN "#D3D3D3"
    ELSE IF next_reset(vendor) - clock <= 0 THEN "#90EE90"
    ELSE "SystemButtonFace"

\* update_vendor_list: the frames it packs, cluster by cluster
update_vendor_list(vs, filter_text, clock) ==
    LET sorted_vendors == SortedByNextReset(Filtered(vs, filter_text))
        clusters == _group_vendors_by_reset_time(sorted_vendors)
        total_clusters == Len(clusters)
    IN  [i \in 1 .. total_clusters |->
            [border_color |-> BorderColor(i, total_clusters),
             frames |-> [j \in 1 .. Len(clusters[i]) |->
                           [vendor |-> clusters[i][j],
                            bg |-> Background(clusters[i][j], clock)]]]]

\* min(v.next_reset for v in self.vendors), of a non-empty collection
MinNextReset(vs) ==
    CHOOSE t \in {next_reset(vs[i]) : i \in 1 .. Len(vs)} :
        \A i \in 1 .. Len(vs) : t <= next_reset(vs[i])

\* A global label taken from the first vendor of the collection.
NextResetLabelOfFirst(vs, clock) ==
    IF vs = <<>> THEN [text |-> "--"]
    ELSE LET td == next_reset(vs[1]) - clock
         IN  IF td > 0
             THEN [text |-> "time", td |-> td, days |-> td \div Day,
                   hours |-> (td % Day) \div Hour,
                   minutes |-> ((td % Day) % Hour) \div Minute]
             ELSE [text |-> "RESET PENDING!"]

\* update_timers, "Global next reset": what next_reset_label shows
NextResetLabel(vs, clock) ==
    IF vs = <<>> THEN [text |-> "--"]
    ELSE LET td == MinNextReset(vs) - clock
         IN  IF td > 0
             THEN [text |-> "time", td |-> td, days |-> td \div Day,
                   hours |-> (td % Day) \div Hour,
                   minutes |-> ((td % Day) % Hour) \div Minute]
             ELSE [text |-> "RESET PENDING!"]

-----------------------------------------------------------------------------
(* SpecView: a collection displayed under a filter, at a time                *)

MaxViewVendors == 3     \* the longest collection displayed, but for the example

\* next_reset of the vendors, as offsets from the epoch of the model: gaps of
\* exactly an hour, of a tick less and of a tick more
ResetOffsetsIn == {0 - Hour - 1, 0, 1, Hour, 2 * Hour + 2}

ViewVendor(who, off) ==
    [name |-> who.name, zone |-> who.zone, categories |-> who.categories,
     council_left |-> who.council_left, reset_maximum |-> 5000,
     last_reset |-> off - timedelta(7, 0, 0),
     h_held |-> who.council_left, h_updated |-> FALSE]

ViewVendorsIn ==
    {ViewVendor(who, off) :
        who \in {[name |-> "A", zone |-> "Z", categories |-> <<>>, council_left |-> 0],
                 [name |-> "A", zone |-> "Z", categories |-> <<>>, council_left |-> 5000],
                 [name |-> "B", zone |-> "", categories |-> <<"Armor">>, council_left |-> -1000]},
        off \in ResetOffsetsIn}

\* Vendors whose next_reset is t, t + 30 min, t + 2 h, t + 2 h 10 min
ExampleCollection ==
    LET who == [name |-> "A", zone |-> "Z", categories |-> <<>>, council_left |-> 5000]
    IN  <<ViewVendor(who, Hour), ViewVendor(who, Hour + 30 * Minute),
          ViewVendor(who, 3 * Hour), ViewVendor(who, 3 * Hour + 10 * Minute)>>

ViewCollectionsIn ==
    UNION {[1 .. n -> ViewVendorsIn] : n \in 0 .. MaxViewVendors}
    \cup {ExampleCollection}

\* What the filter entry holds
FiltersIn == {<<>>, <<"Z">>, <<" ", "b">>, <<"a", " ", "z">>, <<"x">>}

InitView ==
    /\ vendors \in ViewCollectionsIn
    /\ current_character = "Default"
    /\ characters = <<"Default">>
    /\ files = [key \in StorageKeys |-> NoFile]
    /\ lastOp = [op |-> "init"]
    /\ now \in 0 .. MaxClockStart
    /\ probe \in {[fn |-> "view_args", filter |-> f] : f \in FiltersIn}
    /\ ui = StartUi(vendors)

\* update_vendor_list, as the filter's trace calls it
CallUpdateVendorList ==
    /\ probe.fn = "view_args"
    /\ probe' = [fn |-> "list", filter |-> probe.filter,
                 shown |-> update_vendor_list(vendors, probe.filter, now)]
    /\ UNCHANGED <<appVars, now>>

\* update_timers' global label, on a tick after the list was drawn
CallUpdateTimers ==
    /\ probe.fn = "list"
    /\ probe' = [probe EXCEPT !.fn = "timers"] @@
                [label |-> NextResetLabel(vendors, now)]
    /\ UNCHANGED <<appVars, now>>

NextView == CallUpdateVendorList \/ CallUpdateTimers

SpecView == InitView /\ [][NextView]_vars

\* The frames of the list from top to bottom, each with the number of its
\* cluster
RECURSIVE FlatFrames(_)
FlatFrames(shown) ==
    IF shown = <<>> THEN <<>>
    ELSE LET last == shown[Len(shown)]
         IN  FlatFrames(SubSeq(shown, 1, Len(shown) - 1)) \o
             [j \in 1 .. Len(last.frames) |->
                [vendor |-> last.frames[j].vendor, bg |-> last.frames[j].bg,
                 cluster |-> Len(shown)]]

OneHour == 60 * 60 * TicksPerSecond

\* C16: two consecutive vendors of the list lie in different clusters if and
\* only if the gap between their next_reset values is strictly greater than
\* one hour.
C16_SplitIffGapAboveOneHour ==
    probe.fn = "list" =>
        LET flat == FlatFrames(probe.shown)
        IN  \A p \in 1 .. Len(flat) - 1 :
                (flat[p].cluster # flat[p + 1].cluster) <=>
                (next_reset(flat[p + 1].vendor) - next_reset(flat[p].vendor) > OneHour)

\* C16 witness: next_reset values t, t+30m, t+2h, t+2h10m give the clusters
\* [[v0, v1], [v2, v3]].
C16_Witness ==
    /\ probe.fn = "list" /\ probe.filter = <<>>
    /\ vendors = ExampleCollection
    /\ Len(probe.shown) = 2
    /\ [j \in 1 .. 2 |-> probe.shown[1].frames[j].vendor] = SubSeq(vendors, 1, 2)
    /\ [j \in 1 .. 2 |-> probe.shown[2].frames[j].vendor] = SubSeq(vendors, 3, 4)

Count(seq, x) == Cardinality({i \in 1 .. Len(seq) : seq[i] = x})

\* C17: the clusters, concatenated in order, are the filtered vendors in
\* ascending order of next_reset, none lost or duplicated; no cluster is
\* empty; nothing to show gives no cluster and one vendor to show gives one
\* cluster of size 1.
C17_ClustersPartitionSortedView ==
    probe.fn = "list" =>
        LET flat == FlatFrames(probe.shown)
            filtered == Filtered(vendors, probe.filter)
        IN  /\ Len(flat) = Len(filtered)
            /\ \A i \in 1 .. Len(filtered) :
                   Count([p \in 1 .. Len(flat) |-> flat[p].vendor], filtered[i])
                       = Count(filtered, filtered[i])
            /\ \A p \in 1 .. Len(flat) - 1 :
                   next_reset(flat[p].vendor) <= next_reset(flat[p + 1].vendor)
            /\ \A i \in 1 .. Len(probe.shown) : probe.shown[i].frames # <<>>
            /\ (filtered = <<>> => probe.shown = <<>>)
            /\ (Len(filtered) = 1 =>
                   Len(probe.shown) = 1 /\ Len(probe.shown[1].frames) = 1)

\* C17 witness: of three vendors the filter keeps the two named A, held in
\* descending order of next_reset and shown in ascending order.
C17_Witness ==
    /\ probe.fn = "list" /\ probe.filter = <<"a", " ", "z">>
    /\ Len(vendors) = 3
    /\ vendors[1].name = "A" /\ vendors[2].name = "B" /\ vendors[3].name = "A"
    /\ next_reset(vendors[1]) > next_reset(vendors[3])
    /\ LET flat == FlatFrames(probe.shown)
       IN  Len(flat) = 2 /\ flat[1].vendor = vendors[3] /\ flat[2].vendor = vendors[1]

\* C18: with three or more clusters exactly the first has the "earliest"
\* border and exactly the last the "latest" border, every cluster between
\* them has none; with fewer than three clusters no cluster has a border.
C18_EdgeClustersTagged ==
    probe.fn = "list" =>
        LET n == Len(probe.shown)
        IN  \A i \in 1 .. n :
                probe.shown[i].border_color =
                    IF n >= 3 /\ i = 1 THEN "#32CD32"
                    ELSE IF n >= 3 /\ i = n THEN "#8B0000"
                    ELSE "None"

\* C18 witness: three clusters, the first and the last with their borders,
\* the one between them without.
C18_Witness ==
    /\ probe.fn = "list" /\ Len(probe.shown) = 3
    /\ probe.shown[1].border_color = "#32CD32"
    /\ probe.shown[2].border_color = "None"
    /\ probe.shown[3].border_color = "#8B0000"

\* C19: a vendor with council_left = 0 is shown exhausted whatever its reset
\* time; a vendor with council_left # 0 and next_reset at or before the
\* current time is shown reset-pending; every other vendor is shown normal.
C19_DisplayClass ==
    probe.fn = "list" =>
        LET flat == FlatFrames(probe.shown)
        IN  \A p \in 1 .. Len(flat) :
                LET v == flat[p].vendor
                IN  /\ (flat[p].bg = "#D3D3D3") <=> (v.council_left = 0)
                    /\ (flat[p].bg = "#90EE90") <=>
                           (v.council_left # 0 /\ next_reset(v) <= now)
                    /\ (flat[p].bg = "SystemButtonFace") <=>
                           (v.council_left # 0 /\ next_reset(v) > now)

\* C19 witness: an empty, overdue vendor shown exhausted, a vendor whose reset
\* is due this instant shown reset-pending, a vendor shown normal.
C19_Witness ==
    /\ probe.fn = "list"
    /\ LET flat == FlatFrames(probe.shown)
       IN  /\ Len(flat) = 3
           /\ flat[1].vendor.council_left = 0 /\ next_reset(flat[1].vendor) < now
           /\ flat[1].bg = "#D3D3D3"
           /\ flat[2].vendor.council_left # 0 /\ next_reset(flat[2].vendor) = now
           /\ flat[2].bg = "#90EE90"
           /\ flat[3].bg = "SystemButtonFace"

\* C20: the global label shows min(next_reset) - now over the whole
\* collection, whatever the filter and the vendors shown; it reads pending
\* when that minimum is at or before now and "--" when the collection is empty.
C20_GlobalNextReset ==
    probe.fn = "timers" =>
        IF vendors = <<>> THEN probe.label.text = "--"
        ELSE \E i \in 1 .. Len(vendors) :
                /\ \A j \in 1 .. Len(vendors) : next_reset(vendors[i]) <= next_reset(vendors[j])
                /\ IF next_reset(vendors[i]) <= now
                   THEN probe.label.text = "RESET PENDING!"
                   ELSE /\ probe.label.text = "time"
                        /\ probe.label.td = next_reset(vendors[i]) - now

\* C20 witness: the filter shows no vendor, the earliest reset is that of the
\* last vendor of the collection, and the label counts down to it.
C20_Witness ==
    /\ probe.fn = "timers" /\ probe.shown = <<>>
    /\ Len(vendors) = 3
    /\ next_reset(vendors[3]) < next_reset(vendors[1])
    /\ next_reset(vendors[3]) < next_reset(vendors[2])
    /\ probe.label.text = "time"
    /\ probe.label.td = next_reset(vendors[3]) - now

-----------------------------------------------------------------------------
(* Spec: what a refused form, a completed change and a deletion leave *)

\* Text in an entry that is neither empty nor the spelling of a number.
NotANumber(entry) == entry.t = "str" /\ entry.v # ""

\* The minutes the three time entries add up to, an empty entry counting 0.
TypedMinutes(form) ==
    LET n(entry) == IF entry.t = "numstr" THEN entry.v ELSE 0
    IN  n(form.days) * 24 * 60 + n(form.hours) * 60 + n(form.minutes)

\* A form with a non-numeric currency, a non-integer time entry, or a total
\* time above 6d 23h 59m without the override.
BadNumbers(form) ==
    \/ NotANumber(form.council)
    \/ NotANumber(form.days) \/ NotANumber(form.hours) \/ NotANumber(form.minutes)
    \/ TypedMinutes(form) > 6 * 24 * 60 + 23 * 60 + 59 /\ ~form.override

\* C21: add_and_save with an empty name, and add_and_save or
\* update_vendor_action with a non-numeric currency, a non-integer days, hours
\* or minutes, or a total time above 6d 23h 59m without override, reports an
\* error and changes neither the collection (so no field of the vendor the
\* update window is for) nor any persisted record.
C21_RefusedFormChangesNothing ==
    [][/\ \A form \in AddForms :
            (form.name = "" \/ BadNumbers(form)) /\ AddVendor(form, "ok")
            => /\ UNCHANGED <<vendors, files>>
               /\ lastOp' = [op |-> "add", ok |-> FALSE]
       /\ \A i \in 1 .. MaxVendors, form \in UpdateForms :
            BadNumbers(form) /\ UpdateVendor(i, form, "ok")
            => /\ UNCHANGED <<vendors, files>>
               /\ lastOp' = [op |-> "update", ok |-> FALSE]]_vars

\* An update was refused while the collection holds a vendor, and forms of
\* each refused kind exist for both handlers.
C21_Witness ==
    /\ lastOp = [op |-> "update", ok |-> FALSE]
    /\ vendors # <<>>
    /\ \E form \in AddForms : form.name = ""
    /\ \E form \in AddForms : NotANumber(form.council)
    /\ \E form \in AddForms : NotANumber(form.hours)
    /\ \E form \in AddForms : ~NotANumber(form.days) /\ TypedMinutes(form) > MAX_TOTAL_MINUTES
    /\ \E form \in UpdateForms : NotANumber(form.council)
    /\ \E form \in UpdateForms : NotANumber(form.hours)
    /\ \E form \in UpdateForms : ~NotANumber(form.council) /\ TypedMinutes(form) > MAX_TOTAL_MINUTES

\* The record of the active character
ActiveRecord == files[character_file_path(current_character)]

\* C22: after each completed add, update, reset or delete whose write
\* succeeded, the persisted record of the active character is the whole
\* in-memory collection: one entry per vendor, in order, with the vendor's
\* field values, and loading it gives the same vendors back.
C22_RecordIsWholeCollection ==
    (lastOp.op \in {"add", "update", "reset", "delete"} /\ lastOp.ok) =>
        /\ ActiveRecord = ListFile([i \in 1 .. Len(vendors) |-> to_dict(vendors[i])])
        /\ FieldsOfRecord(ActiveRecord) = [i \in 1 .. Len(vendors) |-> Fields(vendors[i])]

\* A deletion has just left one of two vendors, after an update changed it.
C22_Witness ==
    /\ lastOp = [op |-> "delete", ok |-> TRUE]
    /\ Len(vendors) = 1
    /\ vendors[1].h_updated
    /\ ActiveRecord = ListFile(<<to_dict(vendors[1])>>)

\* The sequence vs without its i-th element
WithoutIndex(vs, i) == SubSeq(vs, 1, i - 1) \o SubSeq(vs, i + 1, Len(vs))

\* C23: a confirmed delete_vendor of the i-th vendor removes exactly that
\* vendor, leaves every other vendor unchanged and in order, and persists the
\* result; a declined one changes neither the collection nor any record.
C23_DeleteRemovesOnlyTarget ==
    [][\A i \in 1 .. MaxVendors :
        /\ DeleteVendor(i, TRUE, "ok") =>
              /\ vendors' = WithoutIndex(vendors, i)
              /\ files' = [files EXCEPT ![character_file_path(current_character)] =
                             ListFile([j \in 1 .. Len(vendors') |-> to_dict(vendors'[j])])]
        /\ DeleteVendor(i, FALSE, "ok") => UNCHANGED <<vendors, files>>]_vars

-----------------------------------------------------------------------------
(* SpecVendor: Vendor(...) on every kind of last_reset *)

\* Timestamps, to the half second, around the epoch of the model
StampsIn == {d * Day + h * Hour + s : d \in {-7, 0, 3}, h \in {0, 23}, s \in {0, 1, Minute + 3}}

\* The last_reset argument: a datetime; ISO text, whole or cut short after the
\* date, the hour or the minute; the spelling of a number of seconds, small or
\* beyond what localtime() converts; other text; null; a number; a list.
InitVendor ==
    /\ IdleApp
    /\ now \in 0 .. MaxClockStart
    /\ \/ \E dt \in StampsIn : probe = [fn |-> "none", last_reset |-> DateTimeV(dt)]
       \/ \E dt \in StampsIn, n \in 1 .. 5 :
             /\ n <= Len(isoformat(dt))
             /\ n \in 1 .. 3 \/ n = Len(isoformat(dt))
             /\ probe = [fn |-> "none",
                         last_reset |-> IsoStr(SubSeq(isoformat(dt), 1, n))]
       \/ \E n \in -2 .. 3 : probe = [fn |-> "none", last_reset |-> NumStr(n)]
       \/ \E s \in {"x", ""} : probe = [fn |-> "none", last_reset |-> StrV(s)]
       \/ probe = [fn |-> "none", last_reset |-> HugeNumStr]
       \/ probe = [fn |-> "none", last_reset |-> NoneV]
       \/ probe = [fn |-> "none", last_reset |-> IntV(5)]
       \/ probe = [fn |-> "none", last_reset |-> ListV(<<>>)]

\* Vendor("A", "Z", 0, last_reset)
CallVendor ==
    /\ probe.fn = "none"
    /\ probe' = [fn |-> "Vendor", last_reset |-> probe.last_reset,
                 out |-> VendorInit("A", "Z", IntV(0), probe.last_reset, IntV(0),
                                    NoneV, now)]
    /\ UNCHANGED <<appVars, now>>

SpecVendor == InitVendor /\ [][CallVendor]_vars

\* The timestamp the rule of the claim gives for a last_reset argument
TimestampFor(x, clock) ==
    CASE x.t = "datetime" -> x.v
      [] x.t = "isostr" -> fromisoformat(x.v)
      [] x.t = "numstr" -> x.v * TicksPerSecond
      [] OTHER -> clock

\* C24: constructing a Vendor never aborts because of last_reset and leaves a
\* timestamp: the datetime given, the parsed ISO text, else the epoch seconds a
\* numeric string spells, else (unparseable text, null, another type) the
\* current time.
C24_ConstructionNeverAborts ==
    probe.fn = "Vendor" =>
        /\ probe.out.ok
        /\ probe.out.v.last_reset = TimestampFor(probe.last_reset, now)

-----------------------------------------------------------------------------
(* SpecChars: the collection in memory and the record of the active character *)

\* C28: after every completed createCharacter, switch, add, update, reset and
\* delete the in-memory collection equals the persisted record of the active
\* character (no vendors when it has no record); in particular right after a
\* createCharacter that seeded the new record from Default, the in-memory
\* collection holds the seeded vendors.
C28_MemoryEqualsActiveRecord ==
    (lastOp.op \in {"create", "switch", "add", "update", "reset", "delete"} /\ lastOp.ok) =>
        [i \in 1 .. Len(vendors) |-> Fields(vendors[i])]
            = IF ActiveRecord.k = "list" THEN FieldsOfRecord(ActiveRecord) ELSE <<>>

-----------------------------------------------------------------------------
(* SpecPrefill: the time fields the update window opens with *)

\* open_update_vendor_window: init_days, init_hours, init_minutes.  days and
\* seconds are timedelta.days and timedelta.seconds of the difference: Python
\* normalises a negative difference to negative days and 0 <= seconds < 86400.
Prefill(vendor, clock) ==
    LET time_diff == next_reset(vendor) - clock
        days == time_diff \div Day
        seconds == (time_diff % Day) \div Second
    IN  <<Max(0, days), Max(0, seconds \div 3600), Max(0, (seconds % 3600) \div 60)>>

\* The update form as the window opens it: council_left // 1000, the prefilled
\* time, the override off, the vendor's categories ticked or in the custom
\* entry.
PrefilledForm(vendor, clock) ==
    LET init == Prefill(vendor, clock)
        custom_items == SelectSeq(vendor.categories,
                           LAMBDA c : \A j \in 1 .. Len(CATEGORIES) : CATEGORIES[j] # c)
    IN  [council |-> NumStr(vendor.council_left \div 1000),
         days |-> NumStr(init[1]), hours |-> NumStr(init[2]),
         minutes |-> NumStr(init[3]), override |-> FALSE,
         checked |-> {CATEGORIES[j] : j \in 1 .. Len(CATEGORIES)}
                       \cap {vendor.categories[j] : j \in 1 .. Len(vendor.categories)},
         custom_on |-> custom_items # <<>>, custom |-> custom_items]

\* next_reset - now of the vendor the window is opened for: overdue, due now,
\* due within the week, and beyond the week (a reset time set with override).
DueIn ==
    {0 - Day - Hour, 0 - Day, 0 - Hour, 0 - Minute, -1, 0, 1, Second, Minute - 1,
     Minute, Minute + 1, Hour - 1, Hour + Minute + Second, Day - 1, Day,
     2 * Day + 3 * Hour + 4 * Minute + 5 * Second + 1, 7 * Day - Minute,
     7 * Day - 1, 7 * Day, 8 * Day + Hour}

InitPrefill ==
    /\ IdleApp
    /\ now \in 0 .. MaxClockStart
    /\ probe \in {[fn |-> "none",
                    vendor |-> [name |-> "A", zone |-> "Z", council_left |-> 1500,
                                last_reset |-> now + due - timedelta(7, 0, 0),
                                reset_maximum |-> 2000, categories |-> <<"Armor">>,
                                h_held |-> 2000, h_updated |-> FALSE]] : due \in DueIn}

\* The update window is opened for the vendor.
OpenUpdateVendorWindow ==
    /\ probe.fn = "none"
    /\ probe' = [fn |-> "open", vendor |-> probe.vendor,
                 form |-> PrefilledForm(probe.vendor, now)]
    /\ UNCHANGED <<appVars, now>>

\* Update is pressed at the same instant, no field edited.
SubmitPrefilled ==
    /\ probe.fn = "open"
    /\ probe' = [fn |-> "update", vendor |-> probe.vendor, form |-> probe.form,
                 out |-> UpdatedVendorOf(probe.vendor, probe.form, now)]
    /\ UNCHANGED <<appVars, now>>

NextPrefill == OpenUpdateVendorWindow \/ SubmitPrefilled

SpecPrefill == InitPrefill /\ [][NextPrefill]_vars

\* C30: the prefilled days, hours and minutes are the time remaining until
\* next_reset cut to whole minutes when that is in the future, and 0, 0, 0
\* when the vendor is reset-pending; so submitting the form at the same
\* instant, unedited, never makes next_reset later.
C30_PrefillIsTimeRemaining ==
    LET remaining == next_reset(probe.vendor) - now
        typed == <<probe.form.days.v, probe.form.hours.v, probe.form.minutes.v>>
    IN  /\ probe.fn \in {"open", "update"} =>
              IF remaining > 0
              THEN /\ timedelta(typed[1], typed[2], typed[3]) = (remaining \div Minute) * Minute
                   /\ typed[2] \in 0 .. 23 /\ typed[3] \in 0 .. 59
              ELSE typed = <<0, 0, 0>>
        /\ (probe.fn = "update" /\ probe.out.ok) =>
              next_reset(probe.out.v) <= next_reset(probe.vendor)

-----------------------------------------------------------------------------
(* SpecApp: the update window, the tick and the closing of the program *)

\* The text update_timers gives a label for a time difference td
TimerText(td) ==
    IF td > 0
    THEN [text |-> "time", days |-> td \div Day, hours |-> (td % Day) \div Hour,
          minutes |-> ((td % Day) % Hour) \div Minute]
    ELSE [text |-> "RESET PENDING!"]

\* update_timers, the body of its try: for each frame the vendor is looked up
\* by the frame's vendor_name, next(..., None); a frame without a vendor keeps
\* its label.  Then the global label.
update_timers(vs, rows, clock) ==
    LET first(name) == CHOOSE i \in 1 .. Len(vs) :
            /\ vs[i].name = name
            /\ \A j \in 1 .. i - 1 : vs[j].name # name
    IN  [labels |-> [name \in rows |->
                       IF \E i \in 1 .. Len(vs) : vs[i].name = name
                       THEN TimerText(next_reset(vs[first(name)]) - clock)
                       ELSE [text |-> "kept"]],
         global |-> NextResetLabel(vs, clock)]

\* The main window takes the user's input: it exists and no error dialog of
\* save_vendors is up.
Usable == ui.alive /\ ui.pending = "none"

\* The Update button of the row of vendors[i]: open_update_vendor_window
OpenUpdateWindow(i) ==
    /\ Usable
    /\ ~ui.window.open
    /\ i \in 1 .. Len(vendors)
    /\ ui' = [ui EXCEPT !.window = WindowOn(vendors, i)]
    /\ lastOp' = [op |-> "open", ok |-> TRUE]
    /\ UNCHANGED <<vendors, current_character, characters, files, now, probe>>

\* update_vendor_action of the open window: vendor is the object the window
\* was opened with, wherever self.vendors points by now.
UpdateFromWindow(form, outcome) ==
    /\ Usable
    /\ ui.window.open
    /\ LET w == ui.window
           made == UpdatedVendorOf(w.vendor, form, now)
       IN  IF made.ok
           THEN /\ vendors' = IF w.at > 0 THEN [vendors EXCEPT ![w.at] = made.v]
                               ELSE vendors
                /\ files' = save_vendors(vendors', current_character, files, outcome)
                /\ ui' = [ui EXCEPT !.rows = RowNames(vendors'), !.window = NoWindow]
                /\ lastOp' = [op |-> "update", ok |-> TRUE, at |-> w.at,
                              vendor |-> made.v]
           ELSE /\ UNCHANGED <<vendors, files, ui>>
                /\ lastOp' = [op |-> "update", ok |-> FALSE, at |-> w.at,
                              vendor |-> w.vendor]
    /\ UNCHANGED <<current_character, characters, now, probe>>

\* reset_now of the open window; confirmed is the answer to "Confirm Reset"
ResetFromWindow(confirmed, outcome) ==
    /\ Usable
    /\ ui.window.open
    /\ LET w == ui.window
           made == ResetVendorOf(w.vendor, now)
       IN  IF confirmed
           THEN /\ vendors' = IF w.at > 0 THEN [vendors EXCEPT ![w.at] = made]
                               ELSE vendors
                /\ files' = save_vendors(vendors', current_character, files, outcome)
                /\ ui' = [ui EXCEPT !.rows = RowNames(vendors'), !.window = NoWindow]
                /\ lastOp' = [op |-> "reset", ok |-> TRUE, at |-> w.at,
                              vendor |-> made]
           ELSE /\ UNCHANGED <<vendors, files, ui>>
                /\ lastOp' = [op |-> "reset", ok |-> FALSE, at |-> w.at,
                              vendor |-> w.vendor]
    /\ UNCHANGED <<current_character, characters, now, probe>>

\* delete_vendor of vendors[i], confirmed, when the write fails: save_vendors
\* shows its error dialog, and the handler waits in it with the list not yet
\* redrawn.
DeleteVendorWriteFails(i, outcome) ==
    /\ Usable
    /\ i \in 1 .. Len(vendors)
    /\ outcome # "ok"
    /\ vendors' = WithoutName(vendors, vendors[i].name)
    /\ files' = save_vendors(vendors', current_character, files, outcome)
    /\ ui' = [ui EXCEPT !.pending = "delete",
                        !.window = WindowAfterDelete(@, vendors, vendors[i].name)]
    /\ lastOp' = [op |-> "save_error", in |-> "delete"]
    /\ UNCHANGED <<current_character, characters, now, probe>>

\* An on_closing that leaves the window up when the write failed.
OnClosingStaysOnError(outcome) ==
    /\ Usable
    /\ files' = save_vendors(vendors, current_character, files, outcome)
    /\ IF outcome = "ok"
       THEN /\ ui' = [ui EXCEPT !.timer_running = FALSE, !.alive = FALSE,
                                !.window = NoWindow, !.close_writes = @ + 1]
            /\ lastOp' = [op |-> "close", written |-> TRUE]
       ELSE /\ ui' = [ui EXCEPT !.timer_running = FALSE, !.close_writes = @ + 1]
            /\ lastOp' = [op |-> "save_error", in |-> "close"]
    /\ UNCHANGED <<vendors, current_character, characters, now, probe>>

\* on_closing (WM_DELETE_WINDOW): the tick is stopped and the collection
\* written; when the write fails the handler waits in the error dialog of
\* save_vendors before it destroys the window.
OnClosing(outcome) ==
    /\ Usable
    /\ files' = save_vendors(vendors, current_character, files, outcome)
    /\ IF outcome = "ok"
       THEN /\ ui' = [ui EXCEPT !.timer_running = FALSE, !.alive = FALSE,
                                !.window = NoWindow, !.close_writes = @ + 1]
            /\ lastOp' = [op |-> "close", written |-> TRUE]
       ELSE /\ ui' = [ui EXCEPT !.timer_running = FALSE, !.pending = "close",
                                !.close_writes = @ + 1]
            /\ lastOp' = [op |-> "save_error", in |-> "close"]
    /\ UNCHANGED <<vendors, current_character, characters, now, probe>>

\* The error dialog of save_vendors is dismissed and the handler goes on:
\* delete_vendor redraws the list, on_closing destroys the window.
DismissSaveError ==
    /\ ui.alive
    /\ ui.pending # "none"
    /\ IF ui.pending = "delete"
       THEN /\ ui' = [ui EXCEPT !.pending = "none", !.rows = RowNames(vendors)]
            /\ lastOp' = [op |-> "delete", ok |-> TRUE, written |-> FALSE]
       ELSE /\ ui' = [ui EXCEPT !.pending = "none", !.alive = FALSE,
                                !.window = NoWindow]
            /\ lastOp' = [op |-> "close", written |-> FALSE]
    /\ UNCHANGED <<vendors, current_character, characters, files, now, probe>>

\* A tick that schedules the next one whether or not the timer was stopped.
TickIgnoresStop ==
    /\ ui.alive
    /\ ui.scheduled
    /\ lastOp' = [op |-> "tick", ran |-> ui.timer_running,
                  out |-> update_timers(vendors, ui.rows, now)]
    /\ UNCHANGED <<vendors, current_character, characters, files, now, probe, ui>>

\* update_timers, called by the event loop one second after it was scheduled
Tick ==
    /\ ui.alive
    /\ ui.scheduled
    /\ IF ~ui.timer_running
       THEN /\ ui' = [ui EXCEPT !.scheduled = FALSE]
            /\ lastOp' = [op |-> "tick", ran |-> FALSE]
       ELSE /\ ui' = [ui EXCEPT !.scheduled = TRUE]
            /\ lastOp' = [op |-> "tick", ran |-> TRUE,
                          out |-> update_timers(vendors, ui.rows, now)]
    /\ UNCHANGED <<vendors, current_character, characters, files, now, probe>>

\* The update forms typed in SpecApp: one that is accepted and one that is
\* refused.
AppUpdateForms ==
    {f \in UpdateForms : /\ f.council \in {NumStr(1), StrV("x")}
                         /\ f.days = StrV("") /\ f.hours = StrV("")
                         /\ f.checked = {}}

NextApp ==
    \/ \E i \in 1 .. MaxVendors : OpenUpdateWindow(i)
    \/ \E form \in AppUpdateForms : UpdateFromWindow(form, "ok")
    \/ \E confirmed \in BOOLEAN : ResetFromWindow(confirmed, "ok")
    \/ \E i \in 1 .. MaxVendors, confirmed \in BOOLEAN :
          Usable /\ DeleteVendor(i, confirmed, "ok")
    \/ \E i \in 1 .. MaxVendors, outcome \in WriteOutcomes :
          DeleteVendorWriteFails(i, outcome)
    \/ \E c \in CharacterNames : Usable /\ OnCharChange(c, TRUE)
    \/ \E outcome \in WriteOutcomes : OnClosing(outcome)
    \/ DismissSaveError
    \/ Tick

\* The program starts with a record of one vendor for each of two characters.
InitApp ==
    /\ Init
    /\ files["Default"].k = "list"
    /\ files["Alt"].k = "list"

SpecApp == InitApp /\ [][NextApp]_vars

\* C26: on_closing stops the tick and attempts the write of the in-memory
\* collection to the record of the active character, once, before the window
\* is destroyed; the window is destroyed whether the write succeeds or fails
\* (after a failed write, as soon as the error dialog is dismissed), and the
\* collection is not changed on the way.
C26_CloseWritesOnceThenDestroys ==
    [][/\ (ui.timer_running /\ ~ui'.timer_running) =>
            /\ ui'.close_writes = 1
            /\ vendors' = vendors
            /\ \E outcome \in WriteOutcomes :
                  /\ files' = save_vendors(vendors, current_character, files, outcome)
                  /\ IF outcome = "ok"
                     THEN ~ui'.alive /\ lastOp' = [op |-> "close", written |-> TRUE]
                     ELSE ui'.alive /\ ui'.pending = "close"
            /\ ui'.pending = "none" =>
                  files'[character_file_path(current_character)] =
                      ListFile([i \in 1 .. Len(vendors) |-> to_dict(vendors[i])])
       /\ (~ui.timer_running /\ ui.alive) =>
            /\ ui.pending = "close"
            /\ UNCHANGED <<vendors, files>>
            /\ ui'.close_writes = 1
            /\ lastOp'.op # "tick" => ~ui'.alive
       /\ (ui.alive /\ ~ui'.alive) => ~ui'.timer_running /\ ui'.close_writes = 1]_vars

\* The window was destroyed after a write that failed once the file had been
\* opened, with a vendor in the collection.
C26_Witness ==
    /\ ~ui.alive
    /\ ~ui.timer_running
    /\ lastOp = [op |-> "close", written |-> FALSE]
    /\ ui.close_writes = 1
    /\ vendors # <<>>
    /\ ActiveRecord = Garbage

\* C27: a tick leaves the collection, the active character, the character
\* list and every record unchanged; while the timer runs it completes, also
\* when the collection is empty and when a frame on display names a vendor the
\* collection no longer holds (that frame's label is kept), and the next tick
\* is scheduled; once on_closing has stopped the timer a tick does nothing and
\* no further tick is scheduled or fires.
C27_TickChangesNothingAndReschedules ==
    [][/\ lastOp'.op = "tick" =>
            /\ UNCHANGED <<vendors, current_character, characters, files>>
            /\ IF ui.timer_running
               THEN /\ lastOp'.ran
                    /\ ui' = ui /\ ui'.scheduled
                    /\ \A name \in ui.rows :
                          name \notin RowNames(vendors)
                          => lastOp'.out.labels[name] = [text |-> "kept"]
                    /\ vendors = <<>> => lastOp'.out.global = [text |-> "--"]
               ELSE /\ ~lastOp'.ran
                    /\ ui' = [ui EXCEPT !.scheduled = FALSE]
       /\ ~ui.scheduled => ~ui'.scheduled /\ lastOp'.op # "tick"]_vars

\* A tick ran while the list still showed the frame of the only vendor, just
\* deleted: the collection is empty and the frame names no vendor.
C27_Witness ==
    /\ lastOp.op = "tick" /\ lastOp.ran
    /\ vendors = <<>>
    /\ ui.rows # {}
    /\ ui.pending = "delete"
    /\ ui.scheduled

\* C29: whenever update_vendor_action or reset_now of an open update window
\* reports success, the vendor it changed is in the in-memory collection of
\* the active character and the record written holds it with the new values,
\* whatever happened between the opening of the window and the button.
C29_SuccessMeansVendorSaved ==
    (lastOp.op \in {"update", "reset"} /\ lastOp.ok) =>
        /\ lastOp.at \in 1 .. Len(vendors)
        /\ vendors[lastOp.at] = lastOp.vendor
        /\ ActiveRecord.k = "list"
        /\ Len(ActiveRecord.items) = Len(vendors)
        /\ ActiveRecord.items[lastOp.at] = to_dict(lastOp.vendor)

-----------------------------------------------------------------------------
(* SpecRecords: every handler that writes, with more than one character *)

\* The program starts on Default, the only character, whose record holds one
\* vendor.
InitRecords ==
    /\ InitChars
    /\ files["Default"] = ListFile(<<LegacyNoMaximum>>)
    /\ files["Alt"].k = "nofile"

\* A vendor is added to an empty collection only: the collections of
\* SpecRecords hold one vendor at most.
NextRecords ==
    \/ Usable /\ AddNewCharacter(<<"B", "o">>)
    \/ \E c \in CharacterNames : Usable /\ OnCharChange(c, TRUE)
    \/ \E form \in CharsForms : Usable /\ vendors = <<>> /\ AddVendor(form, "ok")
    \/ \E i \in 1 .. MaxVendors, form \in AppUpdateForms :
          Usable /\ UpdateVendor(i, form, "ok")
    \/ \E i \in 1 .. MaxVendors : Usable /\ ResetNow(i, TRUE, "ok")
    \/ \E i \in 1 .. MaxVendors : Usable /\ DeleteVendor(i, TRUE, "ok")
    \/ \E outcome \in WriteOutcomes : OnClosing(outcome)
    \/ DismissSaveError

SpecRecords == InitRecords /\ [][NextRecords]_vars

\* C25: the records of the characters are independent: a step changes a
\* record only if it is an add, update, reset, delete or close, and then only
\* the record of the character that is active; or a createCharacter, and
\* then only the record of the new character.  A switch changes no record.
C25_OnlyOwnRecordWritten ==
    [][\A key \in StorageKeys :
        files'[key] # files[key] =>
            IF lastOp'.op = "create"
            THEN key = character_file_path(IdentifierOf(lastOp'.name))
            ELSE /\ lastOp'.op \in {"add", "update", "reset", "delete", "close",
                                     "save_error"}
                 /\ current_character' = current_character
                 /\ key = character_file_path(current_character)]_vars

\* The program was closed with the new character Bo active, whose record
\* differs from Default's; both hold vendors.
C25_Witness ==
    /\ ~ui.alive
    /\ current_character = "Bo"
    /\ vendors # <<>>
    /\ files["Default"].k = "list"
    /\ files["Bo"].k = "list"
    /\ files["Bo"] # files["Default"]

=============================================================================
